---- MODULE Spec2Model ----
(***************************************************************************)
(* Garmin-Connect-Data-Downloader: the daily health record reconciler.     *)
(*                                                                         *)
(*   Row merger      : garmin_sync.export_to_csv, merge_csv_files          *)
(*   Field normalizer: garmin_sync.get_stats, garmin_sync.get_sleep_data   *)
(*                                                                         *)
(* Python values are tagged records (PyNone, PyInt, PyStr, PyDict, PyList) *)
(* so that None, 0 and '' stay distinct.  A CSV file is the sequence of    *)
(* its rows, a row the sequence of its cells, a cell a string.             *)
(***************************************************************************)
EXTENDS Integers, Sequences, FiniteSets, TLC

VARIABLES
    files,      \* the export directory: path -> rows of the CSV file at that path
    pc,         \* per caller: position inside export_to_csv
    local,      \* per caller: the locals of the running export_to_csv call
    calls,      \* number of export_to_csv calls started so far
    done,       \* history: outcome and arguments of the most recently returned call
    merged,     \* history: dates whose export_to_csv call returned normally
    clean,      \* history: no call has failed and merge_csv_files has not run
    payload,    \* the raw payloads handed to get_stats by the API client
    record,     \* the result of get_stats on `payload`
    ctl,        \* the routine being run outside the reconciler: its position and locals
    trace       \* history: the calls that routine has made, in order

vars == <<files, pc, local, calls, done, merged, clean, payload, record, ctl, trace>>

storeVars == <<files, pc, local, calls, done, merged, clean>>
normVars == <<payload, record>>
glueVars == <<ctl, trace>>

----------------------------------------------------------------------------
(* Bounds *)

NumDates == 2
MaxCalls == 3
NumLegacy == 1

----------------------------------------------------------------------------
(* Python values *)

PyNone == [none |-> TRUE]
PyInt(n) == [int |-> n]
PyStr(s) == [str |-> s]
PyDict(d) == [dict |-> d]
PyList(l) == [list |-> l]
\* the float n / d of a true division, kept as the pair it was computed from
PyQuot(n, d) == [num |-> n, den |-> d]

IsInt(v) == "int" \in DOMAIN v
IsStr(v) == "str" \in DOMAIN v
IsDict(v) == "dict" \in DOMAIN v
IsList(v) == "list" \in DOMAIN v
IsNumber(v) == IsInt(v) \/ "num" \in DOMAIN v

Range(s) == {s[i] : i \in DOMAIN s}

\* dict.get(key): the value, or None when the key is missing
Get(d, key) == IF key \in DOMAIN d THEN d[key] ELSE PyNone

\* dict.get(key, default)
GetOr(d, key, default) == IF key \in DOMAIN d THEN d[key] ELSE default

\* the digits after the decimal point of rem / d by long division, up to the
\* count digits a double carries
RECURSIVE FractionDigits(_, _, _)
FractionDigits(rem, d, count) ==
    IF rem = 0 \/ count = 0 THEN ""
    ELSE ToString((rem * 10) \div d) \o FractionDigits((rem * 10) % d, d, count - 1)

\* str(float): the quotient with at least one digit after the point (45.0,
\* 42.5); a quotient that does not terminate is cut where the digits of the
\* double end, without the rounding of its last digit
FloatStr(n, d) ==
    ToString(n \div d) \o "." \o
        (IF n % d = 0 THEN "0" ELSE FractionDigits(n % d, d, 15))

\* str(value) as csv.writer renders a cell: None becomes the empty string
CsvStr(v) ==
    IF v = PyNone THEN ""
    ELSE IF IsStr(v) THEN v.str
    ELSE IF IsInt(v) THEN ToString(v.int)
    ELSE FloatStr(v.num, v.den)

EmptyDict == [k \in {} |-> PyNone]

----------------------------------------------------------------------------
(* The field catalogue of export_to_csv.  Each group keeps, in source     *)
(* order, the columns that the records of this model can populate or that  *)
(* tell the two catalogues apart; the groups left out (activity, stress,   *)
(* respiration, body battery) only add columns that stay empty.            *)

date_fields == <<"date", "year", "month", "day", "day_of_week">>

base_fields == <<"restingHeartRate", "totalSteps">>

sleep_fields ==
    <<"sleepTimeSeconds", "deepSleepSeconds", "lightSleepSeconds",
      "remSleepSeconds", "awakeSleepSeconds", "sleepingSeconds">>

body_fields == <<"weightInGrams", "bodyFatPercentage">>

hrv_fields == <<"averageHrvValue", "maxHrvValue", "minHrvValue", "weeklyAvgHrv">>

spo2_fields == <<"lowestSpo2">>

\* field_groups in insertion order, flattened by the loop that fills all_fields
all_fields ==
    date_fields \o base_fields \o sleep_fields \o body_fields \o hrv_fields \o
    spo2_fields

\* alternative_field_mappings, as (alternative, canonical) pairs in dict order
alternative_field_mappings ==
    << <<"weight", "weightInGrams">>,
       <<"bodyFat", "bodyFatPercentage">>,
       <<"sleepingSeconds", "sleepTimeSeconds">>,
       <<"deepSleepDuration", "deepSleepSeconds">>,
       <<"lightSleepDuration", "lightSleepSeconds">>,
       <<"remSleepDuration", "remSleepSeconds">>,
       <<"awakeDuration", "awakeSleepSeconds">> >>

\* the catalogue of the earlier export_to_csv (src/src/downloader.py), whose
\* per-date files an installation may still hold: it has steps and
\* visceralFat and lacks the HRV summary columns
old_all_fields ==
    date_fields \o <<"steps", "restingHeartRate", "totalSteps">> \o
    sleep_fields \o <<"weightInGrams", "bodyFatPercentage", "visceralFat">> \o
    <<"averageHrvValue", "maxHrvValue", "minHrvValue">> \o spo2_fields

----------------------------------------------------------------------------
(* Dates, paths and the inputs of the row merger *)

\* date_str values with the parts get_stats derives from them
\* (date_str.split('-') and date_obj.weekday())
iso_dates ==
    << [iso |-> "2025-05-10", year |-> "2025", month |-> "05", day |-> "10", weekday |-> 5],
       [iso |-> "2025-05-11", year |-> "2025", month |-> "05", day |-> "11", weekday |-> 6],
       [iso |-> "2025-05-12", year |-> "2025", month |-> "05", day |-> "12", weekday |-> 0],
       [iso |-> "2025-05-13", year |-> "2025", month |-> "05", day |-> "13", weekday |-> 1] >>

Dates == {iso_dates[i].iso : i \in 1..NumDates}

DateInfo(d) == CHOOSE r \in Range(iso_dates) : r.iso = d

Procs == {"cli", "web"}

csv_file == "exports/garmin_stats.csv"
dated_csv_file(date_str) == "exports/archive/garmin_stats_" \o date_str \o ".csv"
legacy_csv_file(date_str) == "exports/garmin_stats_" \o date_str \o ".csv"

\* AddDateFields without the line stats['date'] = date_str
AddDateFieldsNoDate(stats, date_str) ==
    LET info == DateInfo(date_str) IN
    ("year" :> PyStr(info.year)) @@ ("month" :> PyStr(info.month)) @@
    ("day" :> PyStr(info.day)) @@ ("day_of_week" :> PyInt(info.weekday)) @@ stats

\* get_stats, after the payloads are combined: the date identity fields
AddDateFields(stats, date_str) ==
    LET info == DateInfo(date_str) IN
    ("date" :> PyStr(date_str)) @@ ("year" :> PyStr(info.year)) @@
    ("month" :> PyStr(info.month)) @@ ("day" :> PyStr(info.day)) @@
    ("day_of_week" :> PyInt(info.weekday)) @@ stats

\* records handed to export_to_csv (before the date fields are added)
StatsChoices ==
    { ("totalSteps" :> PyInt(8000)) @@ ("restingHeartRate" :> PyInt(55)),
      ("totalSteps" :> PyInt(10000)) @@ ("restingHeartRate" :> PyInt(60)) @@
          ("bodyFatPercentage" :> PyInt(18)),
      ("steps" :> PyInt(12000)) @@ ("restingHeartRate" :> PyInt(58)),
      ("totalSteps" :> PyInt(12000)) @@ ("restingHeartRate" :> PyInt(58)) }

\* the record inside a per-date file left by an earlier version
LegacyStats ==
    ("steps" :> PyInt(7000)) @@ ("totalSteps" :> PyInt(7000)) @@
    ("restingHeartRate" :> PyInt(50)) @@ ("lowestSpo2" :> PyInt(91))

----------------------------------------------------------------------------
(* export_to_csv: the pure parts *)

date_fields_set == Range(date_fields)

AltTargets == {alternative_field_mappings[i][2] : i \in DOMAIN alternative_field_mappings}

\* [k for k, v in alternative_field_mappings.items() if v == field]
AltFieldsOf(field) ==
    LET hits == SelectSeq(alternative_field_mappings, LAMBDA kv : kv[2] = field)
    IN  [i \in DOMAIN hits |-> hits[i][1]]

\* RowValue with the None test inverted: present values are blanked
RowValueBlanked(stats, field) ==
    IF field \in date_fields_set
    THEN Get(stats, field)
    ELSE IF Get(stats, field) = PyNone THEN Get(stats, field) ELSE PyStr("")

\* row_data[field]
RowValue(stats, field) ==
    IF field \notin DOMAIN stats /\ field \in AltTargets
    THEN LET found == SelectSeq(AltFieldsOf(field),
                        LAMBDA alt : alt \in DOMAIN stats /\ stats[alt] # PyNone)
         IN  IF found # <<>> THEN Get(stats, found[1]) ELSE PyStr("")
    ELSE LET value == Get(stats, field)
         IN  IF value = PyNone THEN PyStr("") ELSE value

row_data(stats) == [field \in Range(all_fields) |-> RowValue(stats, field)]

\* NewRow without the cells of the fields the record leaves empty
NewRowCompact(stats) ==
    SelectSeq([i \in DOMAIN all_fields |-> CsvStr(RowValue(stats, all_fields[i]))],
              LAMBDA cell : cell # "")

\* [row_data.get(field, '') for field in all_fields], as csv.writer renders
\* it; row_data has every field of all_fields, so the default is never taken
NewRow(stats) == [i \in DOMAIN all_fields |-> CsvStr(RowValue(stats, all_fields[i]))]

\* ExistingData without the skip of the row that is being replaced
ExistingDataKeepsDate(rows, date_str) ==
    IF rows = <<>> THEN <<>>
    ELSE IF Range(Head(rows)) # Range(all_fields) THEN <<>> ELSE Tail(rows)

\* the rows kept from the existing store
ExistingData(rows, date_str) ==
    LET file_exists == rows # <<>>
    IN  IF ~file_exists THEN <<>>
        ELSE LET existing_headers == Head(rows)
             IN  IF Range(existing_headers) # Range(all_fields) THEN <<>>
                 ELSE SelectSeq(Tail(rows),
                        LAMBDA row : ~(row # <<>> /\ row[1] = date_str))

\* the rows export_to_csv writes to the live store, in order
RowsToWrite(existing_data, new_row) == <<all_fields>> \o existing_data \o <<new_row>>

\* the content of the per-date archive file
ArchiveRows(new_row) == <<all_fields, new_row>>

\* the rows of the live store as the code sees them: an absent file and an
\* empty one both count as "no store" (csv_file.exists() and getsize > 0)
LiveRows == IF csv_file \in DOMAIN files THEN files[csv_file] ELSE <<>>

NoCall == [status |-> "none", date_str |-> "", stats |-> EmptyDict, printed |-> <<>>]

LocalInit ==
    [date_str |-> "", stats |-> EmptyDict, row |-> <<>>,
     existing_data |-> <<>>, before |-> <<>>, out |-> <<>>, printed |-> <<>>]

\* the two lines export_to_csv prints, after both files are written
export_messages == <<"Exported data to", "Archived date-specific data to">>

----------------------------------------------------------------------------
(* export_to_csv: the steps of one call by caller p *)

Idle == \A q \in Procs : pc[q] = "idle"

\* entry up to the end of the read of the existing store: the row is built
\* and the rows to keep are collected; nothing is printed on the way, and no
\* lock is taken on the store
ExportEnter(p, rec, date_str) ==
    /\ pc[p] = "idle"
    /\ calls < MaxCalls
    /\ LET stats == AddDateFields(rec, date_str) IN
       local' = [local EXCEPT ![p] =
                    [date_str |-> date_str, stats |-> stats,
                     row |-> NewRow(stats),
                     existing_data |-> ExistingData(LiveRows, date_str),
                     before |-> LiveRows, out |-> <<>>, printed |-> <<>>]]
    /\ pc' = [pc EXCEPT ![p] = "open"]
    /\ calls' = calls + 1
    /\ UNCHANGED <<files, done, merged, clean, normVars, glueVars>>

\* a call made while no other call is in progress
ExportBegin(p, rec, date_str) == Idle /\ ExportEnter(p, rec, date_str)

\* ExportOpen reading the store again as it opens it for writing
ExportOpenReread(p) ==
    /\ pc[p] = "open"
    /\ files' = (csv_file :> <<>>) @@ files
    /\ local' = [local EXCEPT
                    ![p].existing_data = ExistingData(LiveRows, local[p].date_str),
                    ![p].out = RowsToWrite(ExistingData(LiveRows, local[p].date_str),
                                           local[p].row)]
    /\ pc' = [pc EXCEPT ![p] = "write"]
    /\ UNCHANGED <<calls, done, merged, clean, normVars, glueVars>>

\* open(csv_file, 'w'): the live store is truncated
ExportOpen(p) ==
    /\ pc[p] = "open"
    /\ files' = (csv_file :> <<>>) @@ files
    /\ local' = [local EXCEPT ![p].out =
                    RowsToWrite(local[p].existing_data, local[p].row)]
    /\ pc' = [pc EXCEPT ![p] = "write"]
    /\ UNCHANGED <<calls, done, merged, clean, normVars, glueVars>>

\* what a read finds where a write beyond the end of the file left a gap
hole == <<"\\x00">>

\* a write at the writer's own position in the file, counted in rows: it
\* replaces what another writer put there, extends the file at its end, and
\* leaves a gap when the file was truncated under the writer
WriteAt(rows, pos, row) ==
    IF pos <= Len(rows) THEN [rows EXCEPT ![pos] = row]
    ELSE rows \o [i \in 1..(pos - Len(rows) - 1) |-> hole] \o <<row>>

\* the position of caller p in the file it opened: after the rows it has written
WritePos(p) ==
    Len(RowsToWrite(local[p].existing_data, local[p].row)) - Len(local[p].out) + 1

\* one writer.writerow reaching the file; after the last one the file is closed
ExportWriteRow(p) ==
    /\ pc[p] = "write"
    /\ local[p].out # <<>>
    /\ files' = [files EXCEPT ![csv_file] = WriteAt(@, WritePos(p), Head(local[p].out))]
    /\ local' = [local EXCEPT ![p].out = Tail(@)]
    /\ pc' = [pc EXCEPT ![p] = IF Tail(local[p].out) = <<>> THEN "archive" ELSE "write"]
    /\ UNCHANGED <<calls, done, merged, clean, normVars, glueVars>>

\* the dated archive copy is written and the call returns csv_file
ExportArchive(p) ==
    /\ pc[p] = "archive"
    /\ files' = (dated_csv_file(local[p].date_str) :> ArchiveRows(local[p].row)) @@ files
    /\ done' = [status |-> "ok", date_str |-> local[p].date_str, stats |-> local[p].stats,
                printed |-> local[p].printed \o export_messages]
    /\ merged' = merged \cup {local[p].date_str}
    /\ local' = [local EXCEPT ![p] = LocalInit]
    /\ pc' = [pc EXCEPT ![p] = "idle"]
    /\ UNCHANGED <<calls, clean, normVars, glueVars>>

\* an I/O error (or a crash) while the store is being rewritten: the
\* with-block closes the file with what was written so far
ExportFail(p) ==
    /\ pc[p] \in {"open", "write"}
    /\ pc' = [pc EXCEPT ![p] = "failed"]
    /\ clean' = FALSE
    /\ UNCHANGED <<files, local, calls, done, merged, normVars, glueVars>>

\* the exception leaves export_to_csv
ExportRaise(p) ==
    /\ pc[p] = "failed"
    /\ done' = [status |-> "failed", date_str |-> local[p].date_str, stats |-> local[p].stats,
                printed |-> local[p].printed]
    /\ local' = [local EXCEPT ![p] = LocalInit]
    /\ pc' = [pc EXCEPT ![p] = "idle"]
    /\ UNCHANGED <<files, calls, merged, clean, normVars, glueVars>>

----------------------------------------------------------------------------
(* merge_csv_files.py *)

\* sorted() over column names: Python's string order of every name the two
\* catalogues know
sorted_names ==
    <<"averageHrvValue", "awakeSleepSeconds", "bodyFatPercentage", "date",
      "day", "day_of_week", "deepSleepSeconds", "lightSleepSeconds",
      "lowestSpo2", "maxHrvValue", "minHrvValue", "month", "remSleepSeconds",
      "restingHeartRate", "sleepTimeSeconds", "sleepingSeconds", "steps",
      "totalSteps", "visceralFat", "weeklyAvgHrv", "weightInGrams", "year">>

Sorted(S) == SelectSeq(sorted_names, LAMBDA n : n \in S)

\* header.index(column) + 1 (0 when the header lacks the column)
ColumnIndex(header, column) ==
    LET hits == {i \in DOMAIN header : header[i] = column}
    IN  IF hits = {} THEN 0 ELSE CHOOSE i \in hits : \A j \in hits : i <= j

\* csv.DictReader: a data row as a mapping from the file's header to cells
DictRow(header, row) ==
    [c \in {header[i] : i \in (DOMAIN header) \cap (DOMAIN row)} |->
        row[CHOOSE i \in DOMAIN header : header[i] = c]]

\* ['date'] + sorted(all_headers - {'date'})
MergedHeaders(all_headers) == <<"date">> \o Sorted(all_headers \ {"date"})

\* sorted(exports_dir.glob("garmin_stats_*.csv")): ISO dates sort by date
LegacyFiles ==
    SelectSeq([i \in DOMAIN iso_dates |-> legacy_csv_file(iso_dates[i].iso)],
              LAMBDA f : f \in DOMAIN files)

RECURSIVE MergedRows(_, _)
\* the rows of every per-date file, re-keyed to the merged header
MergedRows(csv_files, header) ==
    IF csv_files = <<>> THEN <<>>
    ELSE LET rows == files[Head(csv_files)]
             data == IF rows = <<>> THEN <<>> ELSE Tail(rows)
             dict_rows == [k \in DOMAIN data |-> DictRow(Head(rows), data[k])]
             clean_rows ==
                 [k \in DOMAIN data |->
                    [i \in DOMAIN header |->
                        IF header[i] \in DOMAIN dict_rows[k]
                        THEN dict_rows[k][header[i]] ELSE ""]]
         IN  clean_rows \o MergedRows(Tail(csv_files), header)

\* archive/<name> of a per-date file
BackupOf(f) == CHOOSE d \in {iso_dates[i].iso : i \in DOMAIN iso_dates} : legacy_csv_file(d) = f

merge_csv_files ==
    /\ Idle
    /\ LegacyFiles # <<>>
    /\ LET readable == {f \in Range(LegacyFiles) : files[f] # <<>>}
           all_headers == UNION {Range(Head(files[f])) : f \in readable}
           header == MergedHeaders(all_headers)
           backups == {f \in Range(LegacyFiles) : dated_csv_file(BackupOf(f)) \notin DOMAIN files}
       IN  files' = (csv_file :> (<<header>> \o MergedRows(LegacyFiles, header))) @@
                    [b \in {dated_csv_file(BackupOf(f)) : f \in backups} |->
                        files[CHOOSE f \in backups : dated_csv_file(BackupOf(f)) = b]] @@
                    files
    /\ done' = NoCall
    /\ clean' = FALSE
    /\ UNCHANGED <<pc, local, calls, merged, normVars, glueVars>>

----------------------------------------------------------------------------
(* The row merger as a state machine *)

\* the row of a per-date file written by an earlier version under `header`
LegacyRow(header, stats) == [i \in DOMAIN header |-> CsvStr(Get(stats, header[i]))]

EmptyDir == [f \in {} |-> <<>>]

LegacyDates == {iso_dates[i].iso : i \in 1..NumLegacy}

\* per-date files exports/garmin_stats_<date>.csv left by an earlier version,
\* all written under the same catalogue
LegacyDirs ==
    {EmptyDir} \cup
    { [f \in {legacy_csv_file(d) : d \in S} |->
          LET d == CHOOSE d \in S : legacy_csv_file(d) = f
          IN  <<header, LegacyRow(header, AddDateFields(LegacyStats, d))>>] :
      S \in (SUBSET LegacyDates) \ {{}}, header \in {all_fields, old_all_fields} }

\* no payload fetched, no normalizer call made
NoPayload ==
    [date_str |-> "", stats |-> PyNone, hrv |-> PyNone, sleep |-> PyNone,
     detailed |-> PyNone, phases |-> PyNone]
NoRecord == [op |-> "none", result |-> PyNone]

\* no routine outside the reconciler is running
NoCtl == [pc |-> "none"]

Init ==
    /\ \E store \in {EmptyDir, csv_file :> <<>>}, legacy \in LegacyDirs :
          files = store @@ legacy
    /\ pc = [p \in Procs |-> "idle"]
    /\ local = [p \in Procs |-> LocalInit]
    /\ calls = 0
    /\ done = NoCall
    /\ merged = {}
    /\ clean = TRUE
    /\ payload = NoPayload
    /\ record = NoRecord
    /\ ctl = NoCtl
    /\ trace = <<>>

Next ==
    \/ \E rec \in StatsChoices, date_str \in Dates : ExportBegin("cli", rec, date_str)
    \/ ExportOpen("cli")
    \/ ExportWriteRow("cli")
    \/ ExportArchive("cli")
    \/ ExportFail("cli")
    \/ ExportRaise("cli")
    \/ merge_csv_files

Spec == Init /\ [][Next]_vars

TypeOK ==
    /\ pc \in [Procs -> {"idle", "open", "write", "archive", "failed"}]
    /\ calls \in 0..MaxCalls
    /\ merged \subseteq Dates
    /\ clean \in BOOLEAN

\* the command line and the web application (health_stats) call
\* export_to_csv on the same store at the same time
\* the records of the concurrent callers: one per shape (with and without a
\* body measurement)
ConcurrentStats ==
    {rec \in StatsChoices : rec["restingHeartRate"] \in {PyInt(55), PyInt(60)}}

InitConc ==
    /\ files \in {EmptyDir, csv_file :> <<>>}
    /\ pc = [p \in Procs |-> "idle"]
    /\ local = [p \in Procs |-> LocalInit]
    /\ calls = 0
    /\ done = NoCall
    /\ merged = {}
    /\ clean = TRUE
    /\ payload = NoPayload
    /\ record = NoRecord
    /\ ctl = NoCtl
    /\ trace = <<>>

NextConc ==
    \E p \in Procs :
        \/ \E rec \in ConcurrentStats, date_str \in Dates : ExportEnter(p, rec, date_str)
        \/ ExportOpen(p)
        \/ ExportWriteRow(p)
        \/ ExportArchive(p)

SpecConc == InitConc /\ [][NextConc]_vars

----------------------------------------------------------------------------
(* Reading a store by column name *)

DataRows(rows) == IF rows = <<>> THEN <<>> ELSE Tail(rows)

HasColumn(rows, column) == rows # <<>> /\ column \in Range(Head(rows))

\* the cell of data row k under the named column ("" when the row or the
\* header has no such cell)
Cell(rows, k, column) ==
    IF ~HasColumn(rows, column) THEN ""
    ELSE IF ColumnIndex(Head(rows), column) \in DOMAIN DataRows(rows)[k]
         THEN DataRows(rows)[k][ColumnIndex(Head(rows), column)]
         ELSE ""

\* the data rows whose date column holds d
RowsFor(rows, d) == {k \in DOMAIN DataRows(rows) : Cell(rows, k, "date") = d}

HeaderSet(rows) == IF rows = <<>> THEN {} ELSE Range(Head(rows))

\* caller p has rewritten the live store and not yet returned
Merging(p) == pc[p] = "archive"

----------------------------------------------------------------------------
(* Row merger properties *)

\* C1: starting from an absent or empty live store, after any sequence of
\* export_to_csv merges the live store holds exactly one row for every merged
\* date, and no date occurs in two rows.
C1_OneRowPerDate ==
    (clean /\ Idle) =>
        /\ \A d \in merged : Cardinality(RowsFor(LiveRows, d)) = 1
        /\ \A d \in Dates : Cardinality(RowsFor(LiveRows, d)) <= 1
        /\ Len(DataRows(LiveRows)) = Cardinality(merged)

\* a date was merged more than once and every date of the model is in the store
C1_Witness ==
    /\ clean /\ Idle
    /\ merged = Dates
    /\ calls > Cardinality(merged)
    /\ Len(DataRows(LiveRows)) = NumDates

\* C2: export_to_csv is all-or-nothing: when an I/O failure interrupts the
\* merge into a populated store, the live store still holds exactly its
\* previous content.
C2_StoreUntouchedOnFailure ==
    \A p \in Procs :
        (pc[p] = "failed" /\ local[p].before # <<>>) => LiveRows = local[p].before

\* C3: when the existing header's column set differs from the catalogue,
\* every existing row (of another date) is kept with all its previously
\* populated values unchanged.
C3_NoDataLossOnColumnChange ==
    \A p \in Procs :
        (Merging(p) /\ local[p].before # <<>>
                    /\ HeaderSet(local[p].before) # Range(all_fields)) =>
            \A k \in DOMAIN DataRows(local[p].before) :
                Cell(local[p].before, k, "date") # local[p].date_str =>
                    \E j \in RowsFor(LiveRows, Cell(local[p].before, k, "date")) :
                        \A c \in HeaderSet(local[p].before) :
                            Cell(local[p].before, k, c) # "" =>
                                /\ HasColumn(LiveRows, c)
                                /\ Cell(LiveRows, j, c) = Cell(local[p].before, k, c)

\* C4: after every merge the header contains every column the header had
\* before the merge and every canonical field.
C4_ColumnSuperset ==
    \A p \in Procs :
        Merging(p) =>
            (HeaderSet(local[p].before) \cup Range(all_fields)) \subseteq HeaderSet(LiveRows)

C6_KeptRowsAlignedByName ==
    \A p \in Procs :
        (Merging(p) /\ HeaderSet(local[p].before) = Range(all_fields)) =>
            \A k \in DOMAIN DataRows(local[p].before) :
                Cell(local[p].before, k, "date") # local[p].date_str =>
                    \E j \in RowsFor(LiveRows, Cell(local[p].before, k, "date")) :
                        \A c \in Range(all_fields) :
                            Cell(LiveRows, j, c) = Cell(local[p].before, k, c)

\* C7: calling export_to_csv twice in a row with the same record for the same
\* date leaves the live store exactly as the first call left it.
C7_Idempotent ==
    \A p \in Procs :
        (Merging(p) /\ done.status = "ok"
                    /\ done.date_str = local[p].date_str
                    /\ done.stats = local[p].stats) =>
            LiveRows = local[p].before

\* the second of two identical calls has rewritten a store with two data rows
C7_Witness ==
    \E p \in Procs :
        /\ Merging(p) /\ done.status = "ok"
        /\ done.date_str = local[p].date_str
        /\ done.stats = local[p].stats
        /\ Len(DataRows(LiveRows)) = 2
        /\ local[p].existing_data # <<>>

\* C8: once export_to_csv has written archive/garmin_stats_<D>.csv, no later
\* merge changes the content of that file.
C8_ArchiveWriteOnce ==
    [][\A d \in merged :
          /\ dated_csv_file(d) \in DOMAIN files'
          /\ files'[dated_csv_file(d)] = files[dated_csv_file(d)]]_vars

----------------------------------------------------------------------------
(* Field normalizer: helpers *)

\* d[k] = v
Put(d, k, v) == (k :> v) @@ d

\* d.update(e)
Update(d, e) == e @@ d

\* bool(v)
Truthy(v) ==
    /\ v # PyNone
    /\ IsInt(v) => v.int # 0
    /\ "num" \in DOMAIN v => v.num # 0
    /\ IsStr(v) => v.str # ""
    /\ IsDict(v) => DOMAIN v.dict # {}
    /\ IsList(v) => v.list # <<>>

\* an exception leaving the code in progress
Raised == [raised |-> TRUE]
IsRaised(x) == "raised" \in DOMAIN x

\* str.lower() on the stage names the payloads use
Lower(text) ==
    CASE text = "DEEP" -> "deep"
      [] text = "LIGHT" -> "light"
      [] text = "REM" -> "rem"
      [] text = "AWAKE" -> "awake"
      [] OTHER -> text

\* value, then body(value): the value is computed once, as an assignment to
\* a local does
Bind(value, body(_)) == CHOOSE out \in {body(v) : v \in {value}} : TRUE

RECURSIVE FoldLeft(_, _, _)
\* a for loop over seq that threads one value through its body op
FoldLeft(op(_, _), acc, seq) ==
    IF seq = <<>> THEN acc
    ELSE Bind(op(acc, Head(seq)), LAMBDA next : FoldLeft(op, next, Tail(seq)))

sleep_stages_map ==
    << <<"deep", "deepSleepSeconds">>, <<"light", "lightSleepSeconds">>,
       <<"rem", "remSleepSeconds">>, <<"awake", "awakeSleepSeconds">> >>

StageNames == {sleep_stages_map[i][1] : i \in DOMAIN sleep_stages_map}

StageField(name) ==
    sleep_stages_map[CHOOSE i \in DOMAIN sleep_stages_map : sleep_stages_map[i][1] = name][2]

\* datetime.strptime(text.split('.')[0], '%Y-%m-%dT%H:%M:%S') as seconds on
\* a common clock, for the timestamps the payloads use
timestamps ==
    << [text |-> "2025-05-09T22:00:00.0", seconds |-> 0],
       [text |-> "2025-05-10T05:30:00.0", seconds |-> 27000] >>

ParsesAsTimestamp(v) == IsStr(v) /\ \E i \in DOMAIN timestamps : timestamps[i].text = v.str

TimestampSeconds(v) == timestamps[CHOOSE i \in DOMAIN timestamps : timestamps[i].text = v.str].seconds

----------------------------------------------------------------------------
(* get_sleep_data *)

\* the detailed endpoint fills the keys that are missing or None
MergeDetailed(sleep_data, detailed_sleep) ==
    IF /\ Truthy(PyDict(sleep_data))
       /\ DOMAIN sleep_data \cap {"sleepLevels", "deepSleepSeconds", "lightSleepSeconds"} = {}
       /\ detailed_sleep # PyNone /\ Truthy(PyDict(detailed_sleep))
    THEN [k \in DOMAIN sleep_data \cup DOMAIN detailed_sleep |->
            IF k \notin DOMAIN sleep_data \/ sleep_data[k] = PyNone
            THEN (IF k \in DOMAIN detailed_sleep THEN detailed_sleep[k] ELSE sleep_data[k])
            ELSE sleep_data[k]]
    ELSE sleep_data

\* basic sleep duration, sleepingSeconds and the local start/end times
BasicSleepStats(sleep_data) ==
    LET duration ==
            IF "sleepTimeSeconds" \in DOMAIN sleep_data
            THEN ("sleepTimeSeconds" :> sleep_data["sleepTimeSeconds"])
            ELSE IF "sleepingSeconds" \in DOMAIN sleep_data
            THEN ("sleepTimeSeconds" :> sleep_data["sleepingSeconds"])
            ELSE IF /\ {"sleepStartTimestampGMT", "sleepEndTimestampGMT"} \subseteq DOMAIN sleep_data
                    /\ ParsesAsTimestamp(sleep_data["sleepStartTimestampGMT"])
                    /\ ParsesAsTimestamp(sleep_data["sleepEndTimestampGMT"])
            THEN ("sleepTimeSeconds" :>
                    PyInt(TimestampSeconds(sleep_data["sleepEndTimestampGMT"])
                          - TimestampSeconds(sleep_data["sleepStartTimestampGMT"])))
            ELSE EmptyDict
        sleeping ==
            IF "sleepingSeconds" \in DOMAIN sleep_data
            THEN ("sleepingSeconds" :> sleep_data["sleepingSeconds"])
            ELSE EmptyDict
    IN  ("sleepStartTimestampLocal" :> Get(sleep_data, "sleepStartTimestampLocal")) @@
        ("sleepEndTimestampLocal" :> Get(sleep_data, "sleepEndTimestampLocal")) @@
        sleeping @@ duration

daily_sleep_fields ==
    <<"deepSleepSeconds", "lightSleepSeconds", "remSleepSeconds",
      "awakeSleepSeconds", "sleepTimeSeconds">>

\* Format 1: dailySleepDTO
FromDailySleepDTO(sleep_stats, sleep_data) ==
    IF "dailySleepDTO" \in DOMAIN sleep_data /\ IsDict(sleep_data["dailySleepDTO"])
    THEN LET daily_sleep == sleep_data["dailySleepDTO"].dict
             Step(acc, field) ==
                 IF field \in DOMAIN daily_sleep /\ daily_sleep[field] # PyNone
                 THEN Put(acc, field, daily_sleep[field]) ELSE acc
         IN  FoldLeft(Step, sleep_stats, daily_sleep_fields)
    ELSE sleep_stats

direct_fields ==
    << <<"deepSleepDuration", "deepSleepSeconds">>,
       <<"lightSleepDuration", "lightSleepSeconds">>,
       <<"remSleepDuration", "remSleepSeconds">>,
       <<"awakeDuration", "awakeSleepSeconds">>,
       <<"deepSleepSeconds", "deepSleepSeconds">>,
       <<"lightSleepSeconds", "lightSleepSeconds">>,
       <<"remSleepSeconds", "remSleepSeconds">>,
       <<"awakeSleepSeconds", "awakeSleepSeconds">> >>

\* Format 2: direct fields in the main sleep data
FromDirectFields(sleep_stats, sleep_data) ==
    LET Step(acc, pair) ==
            IF /\ pair[1] \in DOMAIN sleep_data /\ sleep_data[pair[1]] # PyNone
               /\ (pair[2] \notin DOMAIN acc \/ acc[pair[2]] = PyNone)
            THEN Put(acc, pair[2], sleep_data[pair[1]]) ELSE acc
    IN  FoldLeft(Step, sleep_stats, direct_fields)

\* Format 2: sleepLevels as a dictionary
FromSleepLevelsDict(sleep_stats, sleep_data) ==
    IF "sleepLevels" \in DOMAIN sleep_data /\ IsDict(sleep_data["sleepLevels"])
    THEN LET sleep_levels == sleep_data["sleepLevels"].dict
             Step(acc, pair) ==
                 IF pair[1] \in DOMAIN sleep_levels /\ sleep_levels[pair[1]] # PyNone
                 THEN Put(acc, pair[2], sleep_levels[pair[1]]) ELSE acc
         IN  FoldLeft(Step, sleep_stats, sleep_stages_map)
    ELSE sleep_stats

\* total_by_level after the loop over the sleepLevels list (Raised when
\* .lower() is called on a value that is not a string)
TotalByLevel(levels) ==
    LET Step(total, level_data) ==
            IF IsRaised(total) \/ ~IsDict(level_data) THEN total
            ELSE LET entry == level_data.dict
                     name_key == IF "level" \in DOMAIN entry THEN "level"
                                 ELSE IF "sleepLevel" \in DOMAIN entry THEN "sleepLevel"
                                 ELSE ""
                     duration == IF name_key = "level" THEN GetOr(entry, "seconds", PyInt(0))
                                 ELSE GetOr(entry, "duration", PyInt(0))
                 IN  IF name_key = "" THEN total
                     ELSE IF ~IsStr(entry[name_key]) THEN Raised
                     ELSE IF Lower(entry[name_key].str) \in StageNames /\ Truthy(duration)
                     THEN (IF IsInt(duration)
                           THEN [total EXCEPT ![Lower(entry[name_key].str)] = @ + duration.int]
                           ELSE Raised)
                     ELSE total
    IN  FoldLeft(Step, [name \in StageNames |-> 0], levels)

\* Format 3: sleepLevels as a list
FromSleepLevelsList(sleep_stats, sleep_data) ==
    IF "sleepLevels" \in DOMAIN sleep_data /\ IsList(sleep_data["sleepLevels"])
    THEN Bind(TotalByLevel(sleep_data["sleepLevels"].list),
              LAMBDA total_by_level :
                  LET Step(acc, pair) ==
                          IF total_by_level[pair[1]] > 0
                          THEN Put(acc, pair[2], PyInt(total_by_level[pair[1]])) ELSE acc
                  IN  IF IsRaised(total_by_level) THEN Raised
                      ELSE FoldLeft(Step, sleep_stats, sleep_stages_map))
    ELSE sleep_stats

\* Format 4: sleepSegments (Raised when a segment of a known type has a
\* duration that cannot be compared with 0, or a type that is not a string)
FromSleepSegments(sleep_stats, sleep_data) ==
    IF "sleepSegments" \in DOMAIN sleep_data /\ IsList(sleep_data["sleepSegments"])
    THEN LET Step(acc, segment) ==
                 IF IsRaised(acc) THEN acc
                 ELSE IF ~(IsDict(segment) /\ "sleepSegmentType" \in DOMAIN segment.dict)
                 THEN acc
                 ELSE LET seg == segment.dict
                          duration == GetOr(seg, "durationInSeconds", PyInt(0))
                      IN  IF ~IsStr(seg["sleepSegmentType"]) THEN Raised
                          ELSE IF Lower(seg["sleepSegmentType"].str) \notin StageNames THEN acc
                          ELSE IF ~IsInt(duration) THEN Raised
                          ELSE IF duration.int > 0
                          THEN Put(acc, StageField(Lower(seg["sleepSegmentType"].str)), duration)
                          ELSE acc
         IN  FoldLeft(Step, sleep_stats, sleep_data["sleepSegments"].list)
    ELSE sleep_stats

alt_fields ==
    << <<"deepSleepDuration", "deepSleepSeconds">>,
       <<"lightSleepDuration", "lightSleepSeconds">>,
       <<"remSleepDuration", "remSleepSeconds">>,
       <<"awakeDuration", "awakeSleepSeconds">>,
       <<"deepSleep", "deepSleepSeconds">>,
       <<"lightSleep", "lightSleepSeconds">>,
       <<"remSleep", "remSleepSeconds">>,
       <<"awake", "awakeSleepSeconds">> >>

\* alternate field names, only for stages still missing
FromAltFields(sleep_stats, sleep_data) ==
    LET Step(acc, pair) ==
            IF pair[1] \in DOMAIN sleep_data /\ pair[2] \notin DOMAIN acc
            THEN Put(acc, pair[2], sleep_data[pair[1]]) ELSE acc
    IN  FoldLeft(Step, sleep_stats, alt_fields)

\* the sleep stage formats in the order the code applies them
SleepStageStats(sleep_stats, sleep_data) ==
    Bind(FromDailySleepDTO(sleep_stats, sleep_data), LAMBDA s1 :
    Bind(FromDirectFields(s1, sleep_data), LAMBDA s2 :
    Bind(FromSleepLevelsDict(s2, sleep_data), LAMBDA s3 :
    Bind(FromSleepLevelsList(s3, sleep_data), LAMBDA s4 :
    Bind(IF IsRaised(s4) THEN s4 ELSE FromSleepSegments(s4, sleep_data), LAMBDA s5 :
         IF IsRaised(s5) THEN s5 ELSE FromAltFields(s5, sleep_data))))))

\* the printed sleep summary divides the duration and every stage by 3600:
\* a value that is not a number raises
SleepSummaryRaises(sleep_stats) ==
    /\ Truthy(Get(sleep_stats, "sleepTimeSeconds"))
    /\ \/ ~IsNumber(sleep_stats["sleepTimeSeconds"])
       \/ \E i \in DOMAIN sleep_stages_map :
             ~IsNumber(GetOr(sleep_stats, sleep_stages_map[i][2], PyInt(0)))

\* get_sleep_data: client_sleep is what garmin_client.get_sleep_data returned
\* (None or a dict), detailed_sleep what get_sleep_data_detailed returned
\* (None when the client has no such method).  The result is a dict, or None
\* after an exception.
get_sleep_data(client_sleep, detailed_sleep) ==
    IF client_sleep = PyNone \/ DOMAIN client_sleep = {} THEN EmptyDict
    ELSE Bind(MergeDetailed(client_sleep, detailed_sleep), LAMBDA sleep_data :
         Bind(BasicSleepStats(sleep_data), LAMBDA basic :
         Bind(SleepStageStats(basic, sleep_data), LAMBDA sleep_stats :
              IF IsRaised(sleep_stats) THEN PyNone
              ELSE IF SleepSummaryRaises(sleep_stats) THEN PyNone
              ELSE sleep_stats)))

----------------------------------------------------------------------------
(* get_sleep_stages *)

phase_types ==
    << <<"DEEP", "deepSleepSeconds">>, <<"LIGHT", "lightSleepSeconds">>,
       <<"REM", "remSleepSeconds">>, <<"AWAKE", "awakeSleepSeconds">> >>

\* get_sleep_stages: sleep_phases is detailed_data['sleepPhases'] of the
\* direct endpoint, None when the client has no session, the response is not
\* 200 or the key is missing
get_sleep_stages(client_sleep, sleep_phases) ==
    IF client_sleep = PyNone \/ DOMAIN client_sleep = {} \/ sleep_phases = PyNone
    THEN PyNone
    ELSE LET Step(acc, phase) ==
                 IF IsRaised(acc) THEN acc
                 ELSE IF ~IsDict(phase) THEN Raised
                 ELSE LET hits == SelectSeq(phase_types,
                                    LAMBDA pair : Get(phase.dict, "type") = PyStr(pair[1]))
                      IN  IF hits = <<>> THEN acc
                          ELSE Put(acc, hits[1][2],
                                   GetOr(phase.dict, "durationInSeconds", PyInt(0)))
         IN  Bind(FoldLeft(Step,
                           [name \in {phase_types[i][2] : i \in DOMAIN phase_types} |-> PyNone],
                           sleep_phases.list),
                  LAMBDA sleep_stages : IF IsRaised(sleep_stages) THEN PyNone ELSE sleep_stages)

----------------------------------------------------------------------------
(* get_stats *)

field_mappings ==
    << <<"weight", "weightInGrams">>,
       <<"bodyFat", "bodyFatPercentage">>,
       <<"bodyWater", "bodyWater">>,
       <<"boneMass", "boneMass">>,
       <<"muscleMass", "muscleMass">> >>

\* the loop over field_mappings
ApplyFieldMappings(stats) ==
    LET Step(acc, pair) ==
            IF pair[1] \in DOMAIN acc /\ pair[2] \notin DOMAIN acc
            THEN Put(acc, pair[2], acc[pair[1]]) ELSE acc
    IN  FoldLeft(Step, stats, field_mappings)

RECURSIVE SumSeq(_)
SumSeq(seq) == IF seq = <<>> THEN 0 ELSE Head(seq) + SumSeq(Tail(seq))

MaxSeq(seq) == CHOOSE m \in Range(seq) : \A x \in Range(seq) : x <= m
MinSeq(seq) == CHOOSE m \in Range(seq) : \A x \in Range(seq) : m <= x

\* the HRV block; an exception inside it is caught and leaves in stats what
\* had been assigned before it
ApplyHrv(stats, hrv_data) ==
    IF hrv_data = PyNone \/ DOMAIN hrv_data = {} THEN stats
    ELSE LET s1 == Update(stats, hrv_data)
             hrv_summary == Get(hrv_data, "hrvSummary")
         IN  IF ~("hrvSummary" \in DOMAIN hrv_data /\ Truthy(hrv_summary)) THEN s1
             ELSE IF ~IsDict(hrv_summary) THEN s1
             ELSE LET s2 == ("weeklyAvgHrv" :> Get(hrv_summary.dict, "weeklyAvg")) @@
                            ("lastNightAvgHrv" :> Get(hrv_summary.dict, "lastNightAvg")) @@
                            ("lastNight5MinHighHrv" :> Get(hrv_summary.dict, "lastNight5MinHigh")) @@
                            ("hrvStatus" :> Get(hrv_summary.dict, "status")) @@ s1
                      readings == Get(hrv_data, "hrvReadings")
                  IN  IF ~("hrvReadings" \in DOMAIN hrv_data /\ Truthy(readings)) THEN s2
                      ELSE IF ~IsList(readings) \/ \E r \in Range(readings.list) : ~IsDict(r)
                      THEN s2
                      ELSE LET with_value == SelectSeq(readings.list,
                                                LAMBDA r : "hrvValue" \in DOMAIN r.dict)
                               hrv_values == [i \in DOMAIN with_value |->
                                                with_value[i].dict["hrvValue"]]
                               ints == [i \in DOMAIN hrv_values |-> hrv_values[i].int]
                           IN  IF hrv_values = <<>> THEN s2
                               ELSE IF \E v \in Range(hrv_values) : ~IsInt(v) THEN s2
                               ELSE ("averageHrvValue" :> PyQuot(SumSeq(ints), Len(ints))) @@
                                    ("maxHrvValue" :> PyInt(MaxSeq(ints))) @@
                                    ("minHrvValue" :> PyInt(MinSeq(ints))) @@ s2

\* the sleep block: get_sleep_data, then get_sleep_stages when no stage key
\* has arrived
ApplySleep(stats, client_sleep, detailed_sleep, sleep_phases) ==
    Bind(get_sleep_data(client_sleep, detailed_sleep), LAMBDA sleep_data :
    Bind(IF sleep_data # PyNone /\ DOMAIN sleep_data # {}
         THEN Update(stats, sleep_data) ELSE stats, LAMBDA s1 :
         IF DOMAIN s1 \cap {"deepSleepSeconds", "lightSleepSeconds"} = {}
         THEN Bind(get_sleep_stages(client_sleep, sleep_phases), LAMBDA sleep_stages :
                   IF sleep_stages # PyNone THEN Update(s1, sleep_stages) ELSE s1)
         ELSE s1))

\* the printed summary divides these values: a value that is not a number
\* raises, and get_stats returns None
DisplayRaises(stats) ==
    LET sleep_time_seconds ==
            GetOr(stats, "sleepTimeSeconds", GetOr(stats, "sleepingSeconds", PyInt(0)))
        weight_value == GetOr(stats, "weightInGrams", Get(stats, "weight"))
    IN  \/ /\ DOMAIN stats \cap (Range(daily_sleep_fields) \cup {"sleepingSeconds"}) # {}
           /\ \/ Truthy(sleep_time_seconds) /\ ~IsNumber(sleep_time_seconds)
              \/ \E i \in DOMAIN sleep_stages_map :
                    LET stage == sleep_stages_map[i][2]
                    IN  stage \in DOMAIN stats /\ stats[stage] # PyNone /\ ~IsNumber(stats[stage])
        \/ /\ DOMAIN stats \cap {"weightInGrams", "weight", "bmi", "bodyFatPercentage", "bodyFat"} # {}
           /\ weight_value # PyNone /\ ~IsNumber(weight_value)

\* get_stats(garmin_client, date_str, export=False, interactive=False) on the
\* payloads the client returns for date_str: the record, or None
get_stats(p) ==
    IF p.stats = PyNone THEN PyNone
    ELSE Bind(ApplyFieldMappings(p.stats), LAMBDA s1 :
         Bind(ApplyHrv(s1, p.hrv), LAMBDA s2 :
         Bind(ApplySleep(s2, p.sleep, p.detailed, p.phases), LAMBDA s3 :
         Bind(AddDateFields(s3, p.date_str), LAMBDA s4 :
              IF DisplayRaises(s4) THEN PyNone ELSE s4))))

----------------------------------------------------------------------------
(* The payloads the API client hands to the normalizer *)

MaxSegments == 2

\* {} or {key: v}
Opt(key, values) == {EmptyDict} \cup {key :> v : v \in values}

\* the dicts made of one dict of each set
Combine(A, B) == {a @@ b : a \in A, b \in B}

SeqsUpTo(S, n) == UNION {[1..k -> S] : k \in 0..n}

\* get_stats_and_body: the body-composition and sleep-duration keys under
\* both of their names
StatsPayloads ==
    Combine({"totalSteps" :> PyInt(8000)},
    Combine(Opt("weight", {PyNone, PyInt(70000)}),
    Combine(Opt("weightInGrams", {PyNone, PyInt(71000)}),
    Combine({EmptyDict, ("bodyFat" :> PyInt(20)) @@ ("bodyFatPercentage" :> PyInt(18))},
    Combine(Opt("sleepTimeSeconds", {PyInt(28000)}),
            Opt("sleepingSeconds", {PyInt(27000)}))))))

\* get_hrv_data
HrvPayloads ==
    { PyNone,
      ("hrvSummary" :> PyDict(("weeklyAvg" :> PyInt(45)) @@ ("status" :> PyStr("BALANCED")))) @@
      ("hrvReadings" :> PyList(<< PyDict("hrvValue" :> PyInt(40)),
                                  PyDict("hrvValue" :> PyInt(50)) >>)) }

SegmentChoices ==
    { PyDict(("sleepSegmentType" :> PyStr("DEEP")) @@ ("durationInSeconds" :> PyInt(5000))),
      PyDict(("sleepSegmentType" :> PyStr("deep")) @@ ("durationInSeconds" :> PyInt(3000))),
      PyDict(("sleepSegmentType" :> PyStr("light")) @@ ("durationInSeconds" :> PyInt(4000))),
      PyDict(("sleepSegmentType" :> PyStr("rem")) @@ ("durationInSeconds" :> PyNone)) }

SleepLevelsChoices ==
    { PyDict(("deep" :> PyInt(5500)) @@ ("light" :> PyNone)),
      PyList(<< PyDict(("level" :> PyStr("DEEP")) @@ ("seconds" :> PyInt(3000))),
                PyDict(("sleepLevel" :> PyStr("deep")) @@ ("duration" :> PyInt(2500))),
                PyDict(("level" :> PyStr("awake")) @@ ("seconds" :> PyInt(0))) >>) }

DailySleepChoices ==
    { PyDict("deepSleepSeconds" :> PyNone),
      PyDict("deepSleepSeconds" :> PyInt(0)),
      PyDict(("deepSleepSeconds" :> PyInt(7200)) @@ ("sleepTimeSeconds" :> PyInt(25000))) }

\* garmin_client.get_sleep_data: the sleep stages in each of their shapes
SleepPayloads ==
    {PyNone} \cup
    Combine(Opt("dailySleepDTO", DailySleepChoices),
    Combine(Opt("deepSleepSeconds", {PyInt(6000)}),
    Combine(Opt("sleepLevels", SleepLevelsChoices),
    Combine(Opt("sleepSegments", {PyList(segs) : segs \in SeqsUpTo(SegmentChoices, MaxSegments)}),
    Combine(Opt("sleepingSeconds", {PyInt(26000)}),
            {EmptyDict,
             ("sleepStartTimestampGMT" :> PyStr(timestamps[1].text)) @@
             ("sleepEndTimestampGMT" :> PyStr(timestamps[2].text))})))))

\* get_sleep_data_detailed
DetailedPayloads == {PyNone, ("deepSleepDuration" :> PyInt(6500)) @@ ("awake" :> PyNone)}

\* detailed_data['sleepPhases']
PhasesPayloads ==
    { PyNone,
      PyList(<< PyDict(("type" :> PyStr("DEEP")) @@ ("durationInSeconds" :> PyInt(4000))),
                PyDict("type" :> PyStr("LIGHT")) >>) }

MaxReadings == 2

ReadingChoices ==
    { PyDict("hrvValue" :> PyInt(40)), PyDict("hrvValue" :> PyInt(50)),
      PyDict("hrvValue" :> PyNone), PyDict("readingTimeGMT" :> PyStr("2025-05-10T01:00:00.0")) }

\* get_hrv_data: the readings with and without the summary object
HrvReadingPayloads ==
    Combine({EmptyDict, "hrvSummary" :> PyDict("weeklyAvg" :> PyInt(45))},
            {"hrvReadings" :> PyList(readings) : readings \in SeqsUpTo(ReadingChoices, MaxReadings)})

\* garmin_client.get_sleep_data: the sources of the sleep duration; the
\* timestamps as ISO strings or as epoch numbers
DurationPayloads ==
    Combine(Opt("sleepTimeSeconds", {PyNone, PyInt(24000)}),
    Combine(Opt("sleepingSeconds", {PyNone, PyInt(26000)}),
    Combine(Opt("dailySleepDTO", {PyDict("deepSleepSeconds" :> PyInt(7200)),
                                  PyDict("sleepTimeSeconds" :> PyInt(25000))}),
            {EmptyDict,
             ("sleepStartTimestampGMT" :> PyStr(timestamps[1].text)) @@
             ("sleepEndTimestampGMT" :> PyStr(timestamps[2].text)),
             ("sleepStartTimestampGMT" :> PyInt(1746828000)) @@
             ("sleepEndTimestampGMT" :> PyInt(1746855000))})))

\* get_stats_and_body with sleep fields of its own
SleepyStatsPayloads ==
    Combine({"totalSteps" :> PyInt(8000)},
    Combine(Opt("remSleepSeconds", {PyInt(5000)}),
    Combine(Opt("sleepTimeSeconds", {PyInt(28000)}),
            Opt("sleepEndTimestampLocal", {PyStr(timestamps[2].text)}))))

\* what one date's fetch can return: the stats payload in all its shapes with
\* a few sleep payloads; the sleep payload in all its shapes with one stats
\* payload; the HRV readings; the sleep-duration sources; a stats payload
\* with sleep fields next to the sleep endpoints
Payloads ==
    [date_str : Dates, stats : StatsPayloads \cup {PyNone}, hrv : HrvPayloads,
     sleep : {PyNone, "sleepingSeconds" :> PyInt(26000),
              "dailySleepDTO" :> PyDict("sleepTimeSeconds" :> PyInt(25000))},
     detailed : {PyNone}, phases : {PyNone}]
    \cup
    [date_str : Dates, stats : {"totalSteps" :> PyInt(8000)}, hrv : {PyNone},
     sleep : SleepPayloads, detailed : DetailedPayloads, phases : PhasesPayloads]
    \cup
    [date_str : Dates, stats : {"totalSteps" :> PyInt(8000)}, hrv : HrvReadingPayloads,
     sleep : {PyNone}, detailed : {PyNone}, phases : {PyNone}]
    \cup
    [date_str : Dates, stats : {"totalSteps" :> PyInt(8000)}, hrv : {PyNone},
     sleep : DurationPayloads, detailed : {PyNone}, phases : {PyNone}]
    \cup
    [date_str : Dates, stats : SleepyStatsPayloads, hrv : {PyNone},
     sleep : {PyNone, "sleepTimeSeconds" :> PyNone, "sleepingSeconds" :> PyInt(26000)},
     detailed : {PyNone}, phases : PhasesPayloads]

----------------------------------------------------------------------------
(* The normalizer on its own: one fetch, one call *)

\* get_sleep_data(garmin_client, date_str) returns
get_sleep_data_call ==
    /\ record = NoRecord
    /\ record' = [op |-> "get_sleep_data",
                  result |-> get_sleep_data(payload.sleep, payload.detailed)]
    /\ UNCHANGED <<payload, storeVars, glueVars>>

\* get_stats(garmin_client, date_str, export=False, interactive=False) returns
get_stats_call ==
    /\ record = NoRecord
    /\ record' = [op |-> "get_stats", result |-> get_stats(payload)]
    /\ UNCHANGED <<payload, storeVars, glueVars>>

InitNorm ==
    /\ files = EmptyDir
    /\ pc = [p \in Procs |-> "idle"]
    /\ local = [p \in Procs |-> LocalInit]
    /\ calls = 0
    /\ done = NoCall
    /\ merged = {}
    /\ clean = TRUE
    /\ payload \in Payloads
    /\ record = NoRecord
    /\ ctl = NoCtl
    /\ trace = <<>>

NextNorm == get_sleep_data_call \/ get_stats_call

SpecNorm == InitNorm /\ [][NextNorm]_vars

----------------------------------------------------------------------------
(* Properties of the field normalizer *)

StageFields == {sleep_stages_map[i][2] : i \in DOMAIN sleep_stages_map}

\* what each sleep-stage source yields by itself, in priority order
StageSources(sleep_data) ==
    << FromDailySleepDTO(EmptyDict, sleep_data),
       FromDirectFields(EmptyDict, sleep_data),
       FromSleepLevelsDict(EmptyDict, sleep_data),
       FromSleepLevelsList(EmptyDict, sleep_data),
       FromSleepSegments(EmptyDict, sleep_data) >>

NonZero(v) == v # PyNone /\ v # PyInt(0)

\* the sources that yield a non-zero value for the stage
Yielding(sleep_data, field) ==
    {i \in DOMAIN StageSources(sleep_data) : NonZero(Get(StageSources(sleep_data)[i], field))}

\* C9: sleep-stage priority.  For each sleep stage the result of
\* get_sleep_data carries the value of the first source, in the order
\* dailySleepDTO, direct fields, sleepLevels mapping, sleepLevels list,
\* sleepSegments, that yields a non-zero value: no later source overwrites it.
C9_SleepStagePriority ==
    (record.op = "get_sleep_data" /\ record.result # PyNone /\ payload.sleep # PyNone) =>
        LET sleep_data == MergeDetailed(payload.sleep, payload.detailed)
        IN  \A field \in StageFields :
               LET hits == Yielding(sleep_data, field)
               IN  hits # {} =>
                      LET first == CHOOSE i \in hits : \A j \in hits : i <= j
                      IN  Get(record.result, field) = Get(StageSources(sleep_data)[first], field)

\* the synonym pairs (synonym, canonical)
SynonymPairs ==
    { <<"weight", "weightInGrams">>, <<"bodyFat", "bodyFatPercentage">>,
      <<"sleepingSeconds", "sleepTimeSeconds">> }

\* the payload has both keys populated, with different values
BothPopulated(p, pair) ==
    /\ p # PyNone
    /\ {pair[1], pair[2]} \subseteq DOMAIN p
    /\ p[pair[1]] # PyNone /\ p[pair[2]] # PyNone
    /\ p[pair[1]] # p[pair[2]]

ColumnOf(field) == CHOOSE i \in DOMAIN all_fields : all_fields[i] = field

\* C10: synonym precedence.  When a payload has both the canonical key and
\* its synonym populated with different non-null values, the record built by
\* get_stats and the row written from it carry the canonical key's value.
C10_CanonicalWins ==
    (record.op = "get_stats" /\ record.result # PyNone) =>
        \A p \in {payload.stats, payload.sleep} : \A pair \in SynonymPairs :
            BothPopulated(p, pair) =>
                /\ Get(record.result, pair[2]) = p[pair[2]]
                /\ NewRow(record.result)[ColumnOf(pair[2])] = CsvStr(p[pair[2]])

\* C11: a present value is not dropped for an absent one.  When the stats
\* payload has a canonical key that is null and a synonym of it that is not,
\* the cell written for the canonical field holds the synonym's value.
C11_NullCanonicalTakesSynonym ==
    (record.op = "get_stats" /\ record.result # PyNone) =>
        \A i \in DOMAIN alternative_field_mappings :
            LET synonym == alternative_field_mappings[i][1]
                canonical == alternative_field_mappings[i][2]
            IN  (/\ {synonym, canonical} \subseteq DOMAIN payload.stats
                 /\ payload.stats[canonical] = PyNone
                 /\ payload.stats[synonym] # PyNone) =>
                    NewRow(record.result)[ColumnOf(canonical)] = CsvStr(payload.stats[synonym])

\* the canonical fields that come from the payloads
PayloadFields == Range(all_fields) \ date_fields_set

\* C12: combining the payloads never loses a value.  A canonical field that
\* is present and non-null at the top level of the stats, HRV or sleep payload
\* is non-null in the record get_stats returns.
C12_NonNullSurvivesMerge ==
    (record.op = "get_stats" /\ record.result # PyNone) =>
        \A field \in PayloadFields :
            (\E p \in {payload.stats, payload.hrv, payload.sleep} :
                p # PyNone /\ field \in DOMAIN p /\ p[field] # PyNone) =>
                Get(record.result, field) # PyNone

\* a value that is the number 0 or holds it at any depth
RECURSIVE HoldsZero(_)
HoldsZero(v) ==
    \/ v = PyInt(0)
    \/ IsDict(v) /\ \E k \in DOMAIN v.dict : HoldsZero(v.dict[k])
    \/ IsList(v) /\ \E i \in DOMAIN v.list : HoldsZero(v.list[i])

\* some payload the client returned for the date reports a 0
ReportsZero ==
    \/ \E top \in {payload.stats, payload.hrv, payload.sleep, payload.detailed} :
          top # PyNone /\ \E k \in DOMAIN top : HoldsZero(top[k])
    \/ HoldsZero(payload.phases)

\* C13: a missing value is never written as zero.  A canonical field of the
\* get_stats record is 0, or its cell in the row built from the record is "0",
\* only if some payload reported the number 0.
C13_ZeroOnlyIfReported ==
    (record.op = "get_stats" /\ record.result # PyNone) =>
        \A field \in PayloadFields :
            (\/ Get(record.result, field) = PyInt(0)
             \/ NewRow(record.result)[ColumnOf(field)] = "0") => ReportsZero

\* the sleep payload has a sleepSegments entry whose durationInSeconds is null
MalformedSegment(sleep_data) ==
    /\ "sleepSegments" \in DOMAIN sleep_data
    /\ IsList(sleep_data["sleepSegments"])
    /\ \E i \in DOMAIN sleep_data["sleepSegments"].list :
          LET segment == sleep_data["sleepSegments"].list[i]
          IN  /\ IsDict(segment)
              /\ "durationInSeconds" \in DOMAIN segment.dict
              /\ segment.dict["durationInSeconds"] = PyNone

\* C14: an extraction error stays with its field.  When a sleepSegments entry
\* carries a null duration (and no sleep phases or detailed payload could
\* interfere), get_stats still returns a record, and every sleep field that
\* the sleep payload gives at its top level or in dailySleepDTO is non-null
\* in it.
C14_ErrorsIsolatedPerField ==
    (/\ record.op = "get_stats"
     /\ payload.stats # PyNone /\ payload.sleep # PyNone
     /\ payload.detailed = PyNone /\ payload.phases = PyNone
     /\ MalformedSegment(payload.sleep)) =>
        /\ record.result # PyNone
        /\ \A field \in StageFields \cup {"sleepTimeSeconds", "sleepingSeconds"} :
              (\/ Get(payload.sleep, field) # PyNone
               \/ Get(FromDailySleepDTO(EmptyDict, payload.sleep), field) # PyNone) =>
                  Get(record.result, field) # PyNone

\* the non-null values of the HRV readings, in order
ValidReadings(hrv_data) ==
    IF hrv_data # PyNone /\ "hrvReadings" \in DOMAIN hrv_data /\ IsList(hrv_data["hrvReadings"])
    THEN LET valid == SelectSeq(hrv_data["hrvReadings"].list,
                                LAMBDA r : IsDict(r) /\ IsInt(Get(r.dict, "hrvValue")))
         IN  [i \in DOMAIN valid |-> valid[i].dict["hrvValue"].int]
    ELSE <<>>

\* C16: HRV statistics from the readings.  When the HRV payload has readings
\* with at least one non-null value, the get_stats record carries their
\* maximum, minimum and mean, taken over the non-null readings only, with or
\* without an hrvSummary object.
C16_HrvFromValidReadings ==
    (record.op = "get_stats" /\ record.result # PyNone) =>
        LET values == ValidReadings(payload.hrv)
            average == Get(record.result, "averageHrvValue")
        IN  values # <<>> =>
                /\ Get(record.result, "maxHrvValue") = PyInt(MaxSeq(values))
                /\ Get(record.result, "minHrvValue") = PyInt(MinSeq(values))
                /\ "num" \in DOMAIN average
                /\ average.num * Len(values) = SumSeq(values) * average.den

\* the sum of durationInSeconds over the segments of the stage the field
\* stands for
SegmentTotal(sleep_data, field) ==
    LET segments == sleep_data["sleepSegments"].list
        of_stage == SelectSeq(segments, LAMBDA segment :
                        /\ IsDict(segment)
                        /\ IsStr(Get(segment.dict, "sleepSegmentType"))
                        /\ Lower(segment.dict["sleepSegmentType"].str) \in StageNames
                        /\ StageField(Lower(segment.dict["sleepSegmentType"].str)) = field
                        /\ IsInt(Get(segment.dict, "durationInSeconds")))
    IN  SumSeq([i \in DOMAIN of_stage |-> of_stage[i].dict["durationInSeconds"].int])

\* C17: segments are added up per stage.  When sleepSegments is the only
\* source that yields a sleep stage, the result of get_sleep_data carries for
\* it the sum of the durations of all segments of that stage.
C17_SegmentsSummedPerType ==
    (/\ record.op = "get_sleep_data" /\ record.result # PyNone
     /\ payload.sleep # PyNone /\ payload.detailed = PyNone) =>
        \A field \in StageFields :
            Yielding(payload.sleep, field) = {5} =>
                Get(record.result, field) = PyInt(SegmentTotal(payload.sleep, field))

\* no structured field of the sleep payload gives a sleep duration
NoStructuredDuration(sleep_data) ==
    /\ Get(sleep_data, "sleepTimeSeconds") = PyNone
    /\ Get(sleep_data, "sleepingSeconds") = PyNone
    /\ Get(FromDailySleepDTO(EmptyDict, sleep_data), "sleepTimeSeconds") = PyNone

\* C18: timestamp fallback.  When sleepTimeSeconds and sleepingSeconds are
\* missing or null, dailySleepDTO gives no duration and both GMT timestamps
\* are present, the result of get_sleep_data has a sleepTimeSeconds, and for
\* timestamps in the ISO text form it is end minus start in seconds.
C18_TimestampFallback ==
    (/\ record.op = "get_sleep_data" /\ record.result # PyNone
     /\ payload.sleep # PyNone /\ payload.detailed = PyNone
     /\ NoStructuredDuration(payload.sleep)
     /\ Get(payload.sleep, "sleepStartTimestampGMT") # PyNone
     /\ Get(payload.sleep, "sleepEndTimestampGMT") # PyNone) =>
        LET start == payload.sleep["sleepStartTimestampGMT"]
            end == payload.sleep["sleepEndTimestampGMT"]
        IN  /\ Get(record.result, "sleepTimeSeconds") # PyNone
            /\ (ParsesAsTimestamp(start) /\ ParsesAsTimestamp(end)) =>
                  record.result["sleepTimeSeconds"] =
                      PyInt(TimestampSeconds(end) - TimestampSeconds(start))

\* the call of p found rows in the live store and keeps none of them because
\* the header's column set is not the catalogue's
DiscardsStore(p) ==
    /\ DataRows(local[p].before) # <<>>
    /\ HeaderSet(local[p].before) # Range(all_fields)
    /\ local[p].existing_data = <<>>

\* C15: rows are not dropped silently.  When export_to_csv is about to
\* rewrite the live store after discarding its rows for a header that does
\* not match the catalogue, it has printed a warning.
C15_DiscardSurfacesWarning ==
    \A p \in Procs :
        (pc[p] = "open" /\ DiscardsStore(p)) => local[p].printed # <<>>

\* the record gives the field a value, under its own name or a synonym
Populated(stats, field) ==
    \/ Get(stats, field) # PyNone
    \/ \E alt \in Range(AltFieldsOf(field)) : Get(stats, alt) # PyNone

\* the second of two merges from an absent or empty store, for another date
\* than the first, has rewritten the store
SecondMerge(p) ==
    /\ Merging(p) /\ clean /\ calls = 2
    /\ done.status = "ok"
    /\ merged = {done.date_str}
    /\ local[p].date_str # done.date_str

\* C19: two dates merged in sequence from an empty store give two rows under
\* the full catalogue header.  The header is the whole catalogue whatever the
\* records populate; each row has one cell per column, its date first, the
\* record's value under every field the record has, and an empty cell exactly
\* under the fields the record does not populate.
C19_TwoDatesFullHeader ==
    \A p \in Procs :
        SecondMerge(p) =>
            /\ Len(LiveRows) = 3
            /\ Head(LiveRows) = all_fields
            /\ \A k \in 1..2 :
                  LET stats == IF k = 1 THEN done.stats ELSE local[p].stats
                      row == LiveRows[k + 1]
                  IN  /\ DOMAIN row = DOMAIN all_fields
                      /\ row[1] = stats["date"].str
                      /\ \A i \in DOMAIN all_fields :
                            /\ row[i] = "" <=> ~Populated(stats, all_fields[i])
                            /\ Get(stats, all_fields[i]) # PyNone =>
                                  row[i] = CsvStr(stats[all_fields[i]])

\* 2025-05-10 was merged without bodyFatPercentage, then 2025-05-11 with 18
C19_Witness ==
    \E p \in Procs :
        /\ SecondMerge(p)
        /\ done.date_str = "2025-05-10" /\ local[p].date_str = "2025-05-11"
        /\ "bodyFatPercentage" \notin DOMAIN done.stats
        /\ Get(local[p].stats, "bodyFatPercentage") = PyInt(18)
        /\ HasColumn(LiveRows, "bodyFatPercentage")
        /\ Cell(LiveRows, 1, "bodyFatPercentage") = ""
        /\ Cell(LiveRows, 2, "bodyFatPercentage") = "18"

\* two calls for different dates, neither in the store, have both read the
\* same store content and both finished writing
BothReadBeforeWrite(p, q) ==
    /\ p # q
    /\ pc[p] = "archive" /\ pc[q] = "archive"
    /\ local[p].date_str # local[q].date_str
    /\ local[p].before = local[q].before
    /\ RowsFor(local[p].before, local[p].date_str) = {}
    /\ RowsFor(local[p].before, local[q].date_str) = {}

\* C20: the read-modify-rewrite is not safe under concurrent writers.  When
\* two concurrent merges for different new dates have each read the store
\* before the other wrote it, the store they leave lacks the row of one of
\* the two dates.
C20_ConcurrentMergeLosesRow ==
    \A p, q \in Procs :
        BothReadBeforeWrite(p, q) =>
            \/ RowsFor(LiveRows, local[p].date_str) = {}
            \/ RowsFor(LiveRows, local[q].date_str) = {}

\* the command line's merge went through whole and then the web application's
\* did: the store is exactly what the second wrote, without the first's row
C20_Witness ==
    /\ BothReadBeforeWrite("cli", "web")
    /\ LiveRows = RowsToWrite(local["web"].existing_data, local["web"].row)
    /\ RowsFor(LiveRows, local["cli"].date_str) = {}
    /\ Cardinality(RowsFor(LiveRows, local["web"].date_str)) = 1

----------------------------------------------------------------------------
(* src/src/daily_export.py: main, the scheduled export *)

MAX_ATTEMPTS == 3

\* the reconciler takes no step while a routine outside it is modelled
StoreIdle ==
    /\ files = EmptyDir
    /\ pc = [p \in Procs |-> "idle"]
    /\ local = [p \in Procs |-> LocalInit]
    /\ calls = 0
    /\ done = NoCall
    /\ merged = {}
    /\ clean = TRUE
    /\ payload = NoPayload
    /\ record = NoRecord

\* send_notification(title, ...) followed by sys.exit(1)
NotifyAndExit(title) ==
    << [call |-> "send_notification", title |-> title],
       [call |-> "sys.exit", code |-> 1] >>

\* from garminconnect import Garmin
main_import(found) ==
    /\ ctl.pc = "import"
    /\ IF found
       THEN ctl' = [ctl EXCEPT !.pc = "credentials"] /\ UNCHANGED trace
       ELSE /\ trace' = trace \o NotifyAndExit("Garmin Export Failed")
            /\ ctl' = [ctl EXCEPT !.pc = "exited"]
    /\ UNCHANGED <<storeVars, normVars>>

\* load_saved_credentials() and the test of its result
main_load_credentials(username, encrypted_pw) ==
    /\ ctl.pc = "credentials"
    /\ trace' = trace \o <<[call |-> "load_saved_credentials"]>> \o
                (IF username /\ encrypted_pw THEN <<>>
                 ELSE NotifyAndExit("Garmin Export Failed"))
    /\ ctl' = [ctl EXCEPT !.pc = IF username /\ encrypted_pw THEN "decrypt" ELSE "exited"]
    /\ UNCHANGED <<storeVars, normVars>>

\* decrypt_password(encrypted_pw) and the test of its result
main_decrypt(password) ==
    /\ ctl.pc = "decrypt"
    /\ trace' = trace \o <<[call |-> "decrypt_password"]>> \o
                (IF password THEN <<>> ELSE NotifyAndExit("Garmin Export Failed"))
    /\ ctl' = [ctl EXCEPT !.pc = IF password THEN "connect" ELSE "exited"]
    /\ UNCHANGED <<storeVars, normVars>>

\* one pass of the loop over range(MAX_ATTEMPTS).  result is what
\* connect_to_garmin does (a client, None, or an exception); log_written is
\* whether auth_status.json under the fixed log directory could be opened for
\* writing.  A pass that does not reach break falls to time.sleep(5).
main_attempt(result, log_written) ==
    /\ ctl.pc = "connect"
    /\ ctl.attempt < MAX_ATTEMPTS
    /\ LET connected == result = "client"
           leaves == connected /\ log_written
           connect == [call |-> "connect_to_garmin", non_interactive |-> TRUE,
                       allow_mfa |-> FALSE, result |-> result]
           log == IF connected THEN <<[call |-> "open", file |-> "auth_status.json",
                                      ok |-> log_written]>>
                  ELSE <<>>
           sleep == IF leaves THEN <<>> ELSE <<[call |-> "time.sleep", seconds |-> 5]>>
       IN  /\ trace' = trace \o <<connect>> \o log \o sleep
           /\ ctl' = [ctl EXCEPT
                        !.client = IF result = "raise" THEN @ ELSE connected,
                        !.success = @ \/ connected,
                        !.attempt = @ + 1,
                        !.pc = IF leaves \/ ctl.attempt + 1 = MAX_ATTEMPTS
                               THEN "after_loop" ELSE "connect"]
    /\ UNCHANGED <<storeVars, normVars>>

\* the test after the loop: without a client the status is saved, the failure
\* is notified and the process exits; an error of the unguarded open leaves
\* main as an exception
main_after_loop(log_written) ==
    /\ ctl.pc = "after_loop"
    /\ IF ~ctl.client \/ ~ctl.success
       THEN /\ trace' = trace \o <<[call |-> "open", file |-> "auth_status.json",
                                    ok |-> log_written]>> \o
                        (IF log_written THEN NotifyAndExit("Garmin Export Failed")
                         ELSE <<>>)
            /\ ctl' = [ctl EXCEPT !.pc = IF log_written THEN "exited" ELSE "crashed"]
       ELSE /\ ctl' = [ctl EXCEPT !.pc = "download"]
            /\ UNCHANGED trace
    /\ UNCHANGED <<storeVars, normVars>>

\* download_specific_dates for the last days and the closing notification
main_download(outcome) ==
    /\ ctl.pc = "download"
    /\ trace' = trace \o <<[call |-> "download_specific_dates"]>> \o
                (CASE outcome = "dates" ->
                          <<[call |-> "send_notification", title |-> "Garmin Export Successful"]>>
                   [] outcome = "none" ->
                          <<[call |-> "send_notification", title |-> "Garmin Export Warning"]>>
                   [] outcome = "raise" -> NotifyAndExit("Garmin Export Error"))
    /\ ctl' = [ctl EXCEPT !.pc = IF outcome = "raise" THEN "exited" ELSE "returned"]
    /\ UNCHANGED <<storeVars, normVars>>

InitDaily ==
    /\ StoreIdle
    /\ ctl = [pc |-> "import", attempt |-> 0, client |-> FALSE, success |-> FALSE]
    /\ trace = <<>>

NextDaily ==
    \/ \E found \in BOOLEAN : main_import(found)
    \/ \E username, encrypted_pw \in BOOLEAN : main_load_credentials(username, encrypted_pw)
    \/ \E password \in BOOLEAN : main_decrypt(password)
    \/ \E result \in {"client", "none", "raise"}, log_written \in BOOLEAN :
          main_attempt(result, log_written)
    \/ \E log_written \in BOOLEAN : main_after_loop(log_written)
    \/ \E outcome \in {"dates", "none", "raise"} : main_download(outcome)

SpecDaily == InitDaily /\ [][NextDaily]_vars

\* the events of the trace that are calls of the named function
CallsOf(name) == SelectSeq(trace, LAMBDA e : e.call = name)

\* main is over: it returned, left through sys.exit or through an exception
MainEnded == ctl.pc \in {"returned", "exited", "crashed"}

\* C21: connection retry exhaustion.  When main is over and every
\* connect_to_garmin call returned None, there were exactly MAX_ATTEMPTS
\* calls, each with non_interactive=True and allow_mfa=False, and the run
\* ended with one failure notification followed by one sys.exit(1), both
\* after the last attempt.
C21_RetryExhaustion ==
    (/\ MainEnded
     /\ CallsOf("connect_to_garmin") # <<>>
     /\ \A i \in DOMAIN CallsOf("connect_to_garmin") :
           CallsOf("connect_to_garmin")[i].result = "none") =>
        /\ Len(CallsOf("connect_to_garmin")) = MAX_ATTEMPTS
        /\ \A i \in DOMAIN CallsOf("connect_to_garmin") :
              /\ CallsOf("connect_to_garmin")[i].non_interactive
              /\ ~CallsOf("connect_to_garmin")[i].allow_mfa
        /\ Len(CallsOf("send_notification")) = 1
        /\ Len(CallsOf("sys.exit")) = 1
        /\ Len(trace) >= 2
        /\ trace[Len(trace) - 1] =
              [call |-> "send_notification", title |-> "Garmin Export Failed"]
        /\ trace[Len(trace)] = [call |-> "sys.exit", code |-> 1]

\* C22: no attempt after a success.  When the first connect_to_garmin call
\* returned a client and main starts downloading, connect_to_garmin has been
\* called exactly once, with non_interactive=True and allow_mfa=False, and
\* sys.exit has not been called.
C22_NoAttemptAfterSuccess ==
    (/\ ctl.pc = "download"
     /\ CallsOf("connect_to_garmin") # <<>>
     /\ CallsOf("connect_to_garmin")[1].result = "client") =>
        /\ Len(CallsOf("connect_to_garmin")) = 1
        /\ CallsOf("connect_to_garmin")[1].non_interactive
        /\ ~CallsOf("connect_to_garmin")[1].allow_mfa
        /\ CallsOf("sys.exit") = <<>>

----------------------------------------------------------------------------
(* garmin_sync.py: get_stats(..., export=True) from the fetch to the return *)

raw_json_file(date_str) == "exports/garmin_stats_" \o date_str \o "_raw.json"

\* BackupCalls going on to the next step after one has failed
BackupCallsKeepsGoing(file_path, fail_at) ==
    << [call |-> "backup_data_file", file_path |-> file_path],
       [call |-> "mkdir", dir |-> "Nextcloud", ok |-> fail_at # "mkdir"],
       [call |-> "shutil.copy2", dest |-> "same name", ok |-> fail_at # "copy"],
       [call |-> "shutil.copy2", dest |-> "dated backup", ok |-> fail_at # "dated copy"],
       [call |-> "return", of |-> "backup_data_file", value |-> fail_at = "none"] >>

\* backup_data_file(file_path): the calls it makes and its return value when
\* the step fail_at raises ("none": nothing raises).  The except clause ends
\* the try block at the first exception and returns False.
BackupCalls(file_path, fail_at) ==
    LET steps == << [call |-> "mkdir", dir |-> "Nextcloud", ok |-> fail_at # "mkdir"],
                    [call |-> "shutil.copy2", dest |-> "same name", ok |-> fail_at # "copy"],
                    [call |-> "shutil.copy2", dest |-> "dated backup",
                     ok |-> fail_at # "dated copy"] >>
        failed == {i \in DOMAIN steps : ~steps[i].ok}
        last == IF failed = {} THEN Len(steps) ELSE CHOOSE i \in failed : TRUE
    IN  <<[call |-> "backup_data_file", file_path |-> file_path]>> \o
        SubSeq(steps, 1, last) \o
        <<[call |-> "return", of |-> "backup_data_file", value |-> failed = {}]>>

BackupFailures == {"none", "mkdir", "copy", "dated copy"}

\* the call returns None: the except clauses of get_stats
ReturnNone == [ctl EXCEPT !.pc = "returned", !.result = "None"]

\* get_stats_and_body, the merges of the HRV and sleep payloads, the date
\* fields and the printed summary
get_stats_fetch ==
    /\ ctl.pc = "fetch"
    /\ record' = [op |-> "get_stats", result |-> get_stats(payload)]
    /\ ctl' = IF get_stats(payload) = PyNone THEN ReturnNone
              ELSE [ctl EXCEPT !.pc = "dump"]
    /\ UNCHANGED <<storeVars, payload, trace>>

\* the raw JSON dump into export_dir, which nothing has created yet
get_stats_dump(io_error) ==
    /\ ctl.pc = "dump"
    /\ LET opened == ctl.export_dir /\ ~io_error
       IN  /\ trace' = Append(trace, [call |-> "open", file |-> raw_json_file(payload.date_str),
                                      ok |-> opened, io_error |-> io_error])
           /\ files' = IF opened THEN (raw_json_file(payload.date_str) :> <<>>) @@ files
                       ELSE files
           /\ ctl' = IF opened THEN [ctl EXCEPT !.pc = "export"] ELSE ReturnNone
    /\ UNCHANGED <<pc, local, calls, done, merged, clean, normVars>>

\* the whole export_to_csv call: mkdir, read, rewrite of the live store,
\* archive copy.  fail_at names the step at which an I/O error is raised;
\* written is the number of rows that had reached the live store by then.
get_stats_export(fail_at, written) ==
    /\ ctl.pc = "export"
    /\ LET stats == record.result
           date_str == payload.date_str
           new_row == NewRow(stats)
           out == RowsToWrite(ExistingData(LiveRows, date_str), new_row)
           Opened(file, ok) == [call |-> "open", file |-> file, ok |-> ok, io_error |-> ~ok]
           enter == << [call |-> "export_to_csv", date_str |-> date_str],
                       [call |-> "mkdir", dir |-> "exports", ok |-> TRUE] >>
       IN  /\ written \in 0..Len(out)
           /\ written = Len(out) <=> fail_at \in {"none", "archive"}
           /\ written = 0 \/ fail_at # "open"
           /\ trace' = trace \o enter \o
                  (CASE fail_at = "open" -> <<Opened(csv_file, FALSE)>>
                     [] fail_at = "write" -> <<Opened(csv_file, TRUE)>>
                     [] fail_at = "archive" ->
                            <<Opened(csv_file, TRUE), Opened(dated_csv_file(date_str), FALSE)>>
                     [] fail_at = "none" ->
                            <<Opened(csv_file, TRUE), Opened(dated_csv_file(date_str), TRUE),
                              [call |-> "return", of |-> "export_to_csv", value |-> csv_file]>>)
           /\ files' = (CASE fail_at = "open" -> files
                          [] fail_at \in {"write", "archive"} ->
                                 (csv_file :> SubSeq(out, 1, written)) @@ files
                          [] fail_at = "none" ->
                                 (dated_csv_file(date_str) :> ArchiveRows(new_row)) @@
                                 (csv_file :> out) @@ files)
           /\ ctl' = IF fail_at = "none"
                     THEN [ctl EXCEPT !.pc = "backup", !.export_dir = TRUE]
                     ELSE [ReturnNone EXCEPT !.export_dir = TRUE]
    /\ UNCHANGED <<pc, local, calls, done, merged, clean, normVars>>

\* backup_data_file(csv_path); its result is not looked at
get_stats_backup(fail_at) ==
    /\ ctl.pc = "backup"
    /\ trace' = trace \o BackupCalls(csv_file, fail_at)
    /\ ctl' = [ctl EXCEPT !.pc = "ask"]
    /\ UNCHANGED <<storeVars, normVars>>

\* the closing question, asked in interactive mode only, and the return; at
\* the end of standard input, input() raises EOFError
get_stats_ask(answer) ==
    /\ ctl.pc = "ask"
    /\ IF ctl.interactive
       THEN /\ trace' = Append(trace, [call |-> "input", answer |-> answer])
            /\ ctl' = IF answer = "EOF" THEN ReturnNone
                      ELSE [ctl EXCEPT !.pc = "returned", !.result = "stats"]
       ELSE /\ answer = "n"
            /\ trace' = trace
            /\ ctl' = [ctl EXCEPT !.pc = "returned", !.result = "stats"]
    /\ UNCHANGED <<storeVars, normVars>>

\* the payloads of the exported days: daily stats with and without a body
\* measurement and a sleep duration, or no stats at all
ExportPayloads ==
    {p \in Payloads :
        /\ p.hrv = PyNone /\ p.sleep = PyNone /\ p.detailed = PyNone /\ p.phases = PyNone
        /\ p.stats = PyNone \/
           DOMAIN p.stats \subseteq {"totalSteps", "bodyFat", "bodyFatPercentage",
                                     "sleepTimeSeconds"}}

\* the export directory before the call: missing (a fresh install), empty,
\* or holding a live store with one earlier row
InitExport ==
    /\ \E dir \in {"missing", "empty", "store"} :
          /\ files = IF dir = "store"
                     THEN csv_file :> <<all_fields,
                              NewRow(AddDateFields(LegacyStats, CHOOSE d \in Dates : TRUE))>>
                     ELSE EmptyDir
          /\ \E interactive \in BOOLEAN :
                ctl = [pc |-> "fetch", export_dir |-> dir # "missing",
                       fresh |-> dir = "missing",
                       interactive |-> interactive, result |-> "pending",
                       before |-> files]
    /\ pc = [p \in Procs |-> "idle"]
    /\ local = [p \in Procs |-> LocalInit]
    /\ calls = 0
    /\ done = NoCall
    /\ merged = {}
    /\ clean = TRUE
    /\ payload \in ExportPayloads
    /\ record = NoRecord
    /\ trace = <<>>

NextExport ==
    \/ get_stats_fetch
    \/ \E io_error \in BOOLEAN : get_stats_dump(io_error)
    \/ \E fail_at \in {"none", "open", "write", "archive"}, written \in 0..(NumDates + 2) :
          get_stats_export(fail_at, written)
    \/ \E fail_at \in BackupFailures : get_stats_backup(fail_at)
    \/ \E answer \in {"y", "n", "EOF"} : get_stats_ask(answer)

SpecExport == InitExport /\ [][NextExport]_vars

\* no I/O error was raised by an open of the call (a missing directory is
\* not one: it is the state the call found)
NoIoError == \A i \in DOMAIN CallsOf("open") : ~CallsOf("open")[i].io_error

\* the position in the trace of the first call of the named function
FirstCall(name) == CHOOSE i \in DOMAIN trace :
                      /\ trace[i].call = name
                      /\ \A j \in 1..(i - 1) : trace[j].call # name

\* what the named function returned
ReturnsOf(name) == SelectSeq(CallsOf("return"), LAMBDA e : e.of = name)

\* C23: export, then backup.  When get_stats(export=True) has returned after
\* a fetch that succeeded (and no I/O error was raised), it has called
\* export_to_csv exactly once, for the date, and then backup_data_file exactly
\* once, with the path export_to_csv returned.
C23_ExportThenBackup ==
    (ctl.pc = "returned" /\ record.result # PyNone /\ NoIoError) =>
        /\ Len(CallsOf("export_to_csv")) = 1
        /\ CallsOf("export_to_csv")[1].date_str = payload.date_str
        /\ Len(CallsOf("backup_data_file")) = 1
        /\ Len(ReturnsOf("export_to_csv")) = 1
        /\ CallsOf("backup_data_file")[1].file_path = ReturnsOf("export_to_csv")[1].value
        /\ FirstCall("export_to_csv") < FirstCall("backup_data_file")

\* C26: backup_data_file never raises.  Once called it returns; it returns
\* True exactly when both copies were made, and after a step that raised it
\* makes no further copy.
C26_BackupNeverRaises ==
    CallsOf("backup_data_file") # <<>> =>
        LET copies == CallsOf("shutil.copy2")
            made == {i \in DOMAIN copies : copies[i].ok}
            nextcloud == SelectSeq(CallsOf("mkdir"), LAMBDA e : e.dir = "Nextcloud")
        IN  /\ ctl.pc \in {"ask", "returned"}
            /\ Len(ReturnsOf("backup_data_file")) = 1
            /\ ReturnsOf("backup_data_file")[1].value <=>
                  (Len(copies) = 2 /\ made = {1, 2})
            /\ \A i \in DOMAIN copies : ~copies[i].ok => i = Len(copies)
            /\ ~nextcloud[1].ok => copies = <<>>

\* the first copy raised: backup_data_file returned False and did not try
\* the dated copy
C26_Witness ==
    /\ CallsOf("backup_data_file") # <<>>
    /\ Len(CallsOf("shutil.copy2")) = 1
    /\ ~CallsOf("shutil.copy2")[1].ok
    /\ ~ReturnsOf("backup_data_file")[1].value
    /\ ctl.pc = "returned" /\ ctl.result = "stats"

\* the live store in a directory listing
StoreIn(dir) == IF csv_file \in DOMAIN dir THEN dir[csv_file] ELSE <<>>

\* C28: state unchanged on failure.  When get_stats(export=True) has returned
\* None, the live store is what it was when the call began.
C28_StoreUnchangedOnNone ==
    (ctl.pc = "returned" /\ ctl.result = "None") => LiveRows = StoreIn(ctl.before)

\* C29: first export on a fresh install.  When get_stats(export=True) has
\* returned after a fetch that succeeded, without a prompt and without an I/O
\* error, it returned the record and the live store has a row for the date,
\* also when the export directory did not exist; and every file was opened
\* for writing only once the directory existed.
C29_FirstExportFreshInstall ==
    (ctl.pc = "returned" /\ record.result # PyNone /\ ~ctl.interactive /\ NoIoError) =>
        /\ ctl.result = "stats"
        /\ RowsFor(LiveRows, payload.date_str) # {}
        /\ \A i \in DOMAIN trace :
              trace[i].call = "open" =>
                  \/ ~ctl.fresh
                  \/ \E j \in 1..(i - 1) : trace[j].call = "mkdir" /\ trace[j].dir = "exports"

-----------------------------------------------------------------------------
(* garmin_sync.py and src/src/downloader.py: connect_to_garmin *)

\* Python's None where a string is expected
None_ == "<None>"

\* bool(s) of an optional string
TruthyStr(s) == s \notin {None_, ""}

\* what base64.b64decode(...).decode() gives for the encodings of the model
Base64Table == ("c2VjcmV0" :> "secret")

\* decrypt_password: None for nothing to decrypt and for an encoding that
\* does not decode (the error is caught), the decoded password otherwise
decrypt_password(encrypted) ==
    IF ~TruthyStr(encrypted) THEN None_
    ELSE IF encrypted \in DOMAIN Base64Table THEN Base64Table[encrypted]
    ELSE None_

\* ~/.garmin_config.json: absent, unreadable, or a JSON object in which
\* either key may be absent
ConfigFiles ==
    {[exists |-> FALSE, valid |-> FALSE, username |-> None_, encrypted_password |-> None_],
     [exists |-> TRUE, valid |-> FALSE, username |-> None_, encrypted_password |-> None_]}
    \cup [exists : {TRUE}, valid : {TRUE},
          username : {None_, "jay@example.com"},
          encrypted_password : {None_, "", "c2VjcmV0", "c2Vjcm"}]

\* load_saved_credentials: the pair (username, encrypted_password)
load_saved_credentials(config) ==
    IF config.exists /\ config.valid
    THEN <<config.username, config.encrypted_password>>
    ELSE <<None_, None_>>

\* the call returns the value, or leaves through an exception
ConnectReturn(value) == [ctl EXCEPT !.pc = "returned", !.result = value]
ConnectRaise == [ctl EXCEPT !.pc = "raised", !.result = "raised"]

\* the step after the credentials are known: garmin_sync tries the saved
\* tokens first, the downloader goes straight to the client
AfterCredentials == IF ctl.variant = "garmin_sync" THEN "token" ELSE "client"

\* one prompt on the terminal
Prompt(function, prompt, answer) ==
    [call |-> function, prompt |-> prompt, answer |-> answer]

connect_load(config) ==
    /\ ctl.pc = "load"
    /\ LET saved == load_saved_credentials(config)
       IN  ctl' = [ctl EXCEPT !.pc = "credentials",
                              !.saved_username = saved[1],
                              !.saved_encrypted_pw = saved[2]]
    /\ trace' = Append(trace, [call |-> "load_saved_credentials"])
    /\ UNCHANGED <<storeVars, normVars>>

\* a variant of connect_credentials_saved that goes on without the check of
\* the saved credentials
connect_credentials_savedUnchecked ==
    /\ ctl.pc = "credentials"
    /\ ctl.non_interactive
    /\ ctl' = [ctl EXCEPT !.pc = AfterCredentials,
                          !.email = ctl.saved_username,
                          !.password = decrypt_password(ctl.saved_encrypted_pw)]
    /\ trace' = Append(trace, [call |-> "decrypt_password"])
    /\ UNCHANGED <<storeVars, normVars>>

\* non_interactive: the saved credentials or nothing
connect_credentials_saved ==
    /\ ctl.pc = "credentials"
    /\ ctl.non_interactive
    /\ IF ~TruthyStr(ctl.saved_username) \/ ~TruthyStr(ctl.saved_encrypted_pw)
       THEN /\ ctl' = ConnectReturn("None")
            /\ trace' = trace
       ELSE /\ ctl' = IF TruthyStr(decrypt_password(ctl.saved_encrypted_pw))
                      THEN [ctl EXCEPT !.pc = AfterCredentials,
                                       !.email = ctl.saved_username,
                                       !.password = decrypt_password(ctl.saved_encrypted_pw)]
                      ELSE ConnectReturn("None")
            /\ trace' = Append(trace, [call |-> "decrypt_password"])
    /\ UNCHANGED <<storeVars, normVars>>

\* the prompts of the interactive branch, in order, for the answers given
CredentialPrompts(use_saved, save) ==
    IF TruthyStr(ctl.saved_username)
    THEN <<Prompt("input", "Use saved credentials? (y/n): ", IF use_saved THEN "y" ELSE "n")>>
         \o (IF use_saved THEN <<[call |-> "decrypt_password"]>>
             ELSE <<Prompt("input", "Enter your Garmin Connect email: ", "typed@example.com"),
                    Prompt("getpass.getpass", "Enter your Garmin Connect password: ", "typed")>>)
    ELSE (IF ctl.argv THEN <<>>
          ELSE <<Prompt("input", "Enter your Garmin Connect email: ", "typed@example.com")>>)
         \o <<Prompt("getpass.getpass", "Enter your Garmin Connect password: ", "typed"),
              Prompt("input", "Save credentials for future use? (y/n): ", IF save THEN "y" ELSE "n")>>
         \o (IF save THEN <<[call |-> "save_credentials"]>> ELSE <<>>)

\* interactive: ask the user; at end of input the first prompt raises
connect_credentials_prompt(use_saved, save, eof) ==
    /\ ctl.pc = "credentials"
    /\ ~ctl.non_interactive
    /\ LET prompts == CredentialPrompts(use_saved, save)
       IN  IF eof
           THEN /\ trace' = Append(trace, [prompts[1] EXCEPT !.answer = "EOF"])
                /\ ctl' = ConnectRaise
           ELSE /\ trace' = trace \o prompts
                /\ ctl' = [ctl EXCEPT
                             !.pc = AfterCredentials,
                             !.email = IF TruthyStr(ctl.saved_username) /\ use_saved
                                       THEN ctl.saved_username
                                       ELSE IF ~TruthyStr(ctl.saved_username) /\ ctl.argv
                                            THEN "argv@example.com"
                                            ELSE "typed@example.com",
                             !.password = IF TruthyStr(ctl.saved_username) /\ use_saved
                                          THEN decrypt_password(ctl.saved_encrypted_pw)
                                          ELSE "typed"]
    /\ UNCHANGED <<storeVars, normVars>>

TokenOutcomes == {"ok", "no tokens", "connection error", "unknown error"}

\* garmin_sync only: login with the stored tokens
connect_token_login(outcome) ==
    /\ ctl.pc = "token"
    /\ trace' = trace \o <<[call |-> "Garmin", email |-> None_],
                           [call |-> "login", by |-> "token", result |-> outcome]>>
    /\ ctl' = CASE outcome = "ok" -> ConnectReturn("client")
                [] outcome = "no tokens" -> [ctl EXCEPT !.pc = "client"]
                [] OTHER -> ConnectReturn("None")
    /\ UNCHANGED <<storeVars, normVars>>

\* GARMIN_TEST_MODE, which the downloader lets GARMIN_USE_MFA override
TestMode ==
    /\ ctl.test_mode
    /\ ~(ctl.variant = "downloader" /\ ctl.use_real_mfa)

\* the client for email and password; in test mode that is all
connect_client ==
    /\ ctl.pc = "client"
    /\ trace' = Append(trace, [call |-> "Garmin", email |-> ctl.email])
    /\ ctl' = IF TestMode THEN ConnectReturn("client") ELSE [ctl EXCEPT !.pc = "login"]
    /\ UNCHANGED <<storeVars, normVars>>

LoginResults == {"ok", "needs_mfa", "mfa required", "error", "dump error"}

\* the token dump that follows a login in garmin_sync
DumpTokens == IF ctl.variant = "garmin_sync" THEN <<[call |-> "garth.dump"]>> ELSE <<>>

\* login with email and password
connect_login(result) ==
    /\ ctl.pc = "login"
    /\ result = "needs_mfa" => ctl.variant = "garmin_sync" /\ ctl.allow_mfa
    /\ result = "dump error" => ctl.variant = "garmin_sync"
    /\ trace' = trace \o <<[call |-> "login", by |-> "password", result |-> result]>>
                      \o (IF result \in {"ok", "dump error"} THEN DumpTokens ELSE <<>>)
    /\ ctl' = CASE result = "ok" -> ConnectReturn("client")
                [] result = "needs_mfa" -> [ctl EXCEPT !.pc = "mfa"]
                [] OTHER -> ConnectReturn("None")
    /\ UNCHANGED <<storeVars, normVars>>

\* garmin_sync, allow_mfa: get_mfa_code asks for the code, then resume_login
connect_mfa(code, resumed) ==
    /\ ctl.pc = "mfa"
    /\ code = "EOF" => ~resumed
    /\ trace' = trace \o <<[call |-> "get_mfa_code"],
                           Prompt("input", "MFA one-time code: ", code)>>
                      \o (IF code = "EOF" THEN <<>>
                          ELSE <<[call |-> "resume_login", ok |-> resumed]>>)
                      \o (IF resumed THEN DumpTokens ELSE <<>>)
    /\ ctl' = IF resumed THEN ConnectReturn("client") ELSE ConnectReturn("None")
    /\ UNCHANGED <<storeVars, normVars>>

InitAuth ==
    /\ StoreIdle
    /\ \E variant \in {"garmin_sync", "downloader"},
          non_interactive, allow_mfa, test_mode, use_real_mfa, argv \in BOOLEAN :
          ctl = [pc |-> "load", variant |-> variant,
                 non_interactive |-> non_interactive, allow_mfa |-> allow_mfa,
                 test_mode |-> test_mode, use_real_mfa |-> use_real_mfa, argv |-> argv,
                 saved_username |-> None_, saved_encrypted_pw |-> None_,
                 email |-> None_, password |-> None_, result |-> "pending"]
    /\ trace = <<>>

NextAuth ==
    \/ \E config \in ConfigFiles : connect_load(config)
    \/ connect_credentials_saved
    \/ \E use_saved, save, eof \in BOOLEAN : connect_credentials_prompt(use_saved, save, eof)
    \/ \E outcome \in TokenOutcomes : connect_token_login(outcome)
    \/ connect_client
    \/ \E result \in LoginResults : connect_login(result)
    \/ \E code \in {"123456", "EOF"}, resumed \in BOOLEAN : connect_mfa(code, resumed)

SpecAuth == InitAuth /\ [][NextAuth]_vars

\* the saved credentials have been loaded
CredentialsLoaded == ctl.pc # "load"

\* the prompts of the call so far
Prompts == SelectSeq(trace, LAMBDA e : e.call \in {"input", "getpass.getpass"})

\* C24: no saved credentials, no connection.  A call with
\* non_interactive=True that finds the saved username or the saved password
\* missing creates no Garmin client, attempts no login and asks nothing, and
\* when it ends it has returned None.
C24_NoCredentialsNoConnection ==
    (/\ CredentialsLoaded
     /\ ctl.non_interactive
     /\ ~TruthyStr(ctl.saved_username) \/ ~TruthyStr(ctl.saved_encrypted_pw)) =>
        /\ CallsOf("Garmin") = <<>>
        /\ CallsOf("login") = <<>>
        /\ Prompts = <<>>
        /\ ctl.pc \in {"credentials", "returned"}
        /\ ctl.pc = "returned" => ctl.result = "None"

\* a non-interactive call that found a username without a password has ended
C24_Witness ==
    /\ ctl.pc = "returned"
    /\ ctl.non_interactive
    /\ TruthyStr(ctl.saved_username)
    /\ ~TruthyStr(ctl.saved_encrypted_pw)
    /\ ctl.result = "None"
    /\ CallsOf("load_saved_credentials") # <<>>

\* C25: non-interactive never prompts.  A call with non_interactive=True asks
\* for no input, whatever allow_mfa is and whatever the login reports.
C25_NonInteractiveNeverPrompts ==
    (CredentialsLoaded /\ ctl.non_interactive) => Prompts = <<>>

-----------------------------------------------------------------------------
(* src/src/downloader.py: export_to_csv *)

\* row_data of the downloader, as DictWriter renders it: stats.get(field, '')
\* for every field of its catalogue
old_row(stats) ==
    [i \in DOMAIN old_all_fields |-> CsvStr(GetOr(stats, old_all_fields[i], PyStr("")))]

\* file_exists after the read of the header: a store with other columns is
\* written anew
old_file_exists(rows) == rows # <<>> /\ Range(Head(rows)) = Range(old_all_fields)

\* duplicate_entry: a row of the store starts with the date
duplicate_entry(rows, date_str) ==
    /\ old_file_exists(rows)
    /\ \E k \in DOMAIN Tail(rows) : Tail(rows)[k] # <<>> /\ Tail(rows)[k][1] = date_str

\* what the live store holds after the call
old_live_rows(rows, date_str, row) ==
    IF duplicate_entry(rows, date_str) THEN rows
    ELSE IF old_file_exists(rows) THEN Append(rows, row)
    ELSE <<old_all_fields, row>>

\* one call of the downloader's export_to_csv: the row is added to the live
\* store unless its date is there, and the dated archive copy is written
old_export_to_csv(rec, date_str) ==
    /\ calls < MaxCalls
    /\ LET stats == AddDateFields(rec, date_str)
           row == old_row(stats)
       IN  /\ files' = (csv_file :> old_live_rows(LiveRows, date_str, row)) @@
                       (dated_csv_file(date_str) :> <<old_all_fields, row>>) @@ files
           /\ local' = [local EXCEPT !["cli"] =
                          [LocalInit EXCEPT !.date_str = date_str, !.stats = stats,
                                            !.row = row, !.before = LiveRows]]
           /\ done' = [status |-> "ok", date_str |-> date_str, stats |-> stats,
                       printed |-> export_messages]
    /\ merged' = merged \cup {date_str}
    /\ calls' = calls + 1
    /\ UNCHANGED <<pc, clean, normVars, glueVars>>

\* the export directory before the first call: no store, an empty one, or
\* the store the current export_to_csv (garmin_sync.py) has written
InitOld ==
    /\ \E store \in {EmptyDir, csv_file :> <<>>,
                     csv_file :> <<all_fields,
                                   NewRow(AddDateFields(LegacyStats, iso_dates[1].iso))>>} :
          files = store
    /\ pc = [p \in Procs |-> "idle"]
    /\ local = [p \in Procs |-> LocalInit]
    /\ calls = 0
    /\ done = NoCall
    /\ merged = {}
    /\ clean = TRUE
    /\ payload = NoPayload
    /\ record = NoRecord
    /\ ctl = NoCtl
    /\ trace = <<>>

NextOld == \E rec \in StatsChoices, date_str \in Dates : old_export_to_csv(rec, date_str)

SpecOld == InitOld /\ [][NextOld]_vars

\* the last call found its date in a store with the downloader's columns
OldDateInStore ==
    /\ done.status = "ok"
    /\ old_file_exists(local["cli"].before)
    /\ RowsFor(local["cli"].before, done.date_str) # {}

\* C27: update semantics in the downloader.  After a call of the downloader's
\* export_to_csv for a date the live store already held, the store has
\* exactly one row for the date, and that row shows the new record's value
\* under every catalogue column the record populates.
C27_OldExportUpdates ==
    OldDateInStore =>
        /\ Cardinality(RowsFor(LiveRows, done.date_str)) = 1
        /\ \A j \in RowsFor(LiveRows, done.date_str) :
              \A key \in (DOMAIN done.stats) \cap Range(old_all_fields) :
                  done.stats[key] # PyNone =>
                      Cell(LiveRows, j, key) = CsvStr(done.stats[key])

-----------------------------------------------------------------------------
(* src/web_app.py: output capture in download, process and health_stats *)

\* requests the server handles, one thread each
MaxRequests == 2

Requests == 1..MaxRequests

\* the streams the process started with
original_stdout == "<stdout>"
original_stderr == "<stderr>"

\* the NamedTemporaryFile of request r
output(r) == "tmp" \o ToString(r)

Handlers == {"download", "process", "health_stats"}

NoRequest == [pc |-> "idle", handler |-> "", old_stdout |-> "", old_stderr |-> "",
              exc |-> ""]

\* a step of request r that leaves sys.stdout and sys.stderr alone
AtRequest(r, pc_after) == [ctl EXCEPT !.req[r].pc = pc_after]

\* sys.stdout = old_stdout; sys.stderr = old_stderr
Restored(r, pc_after) ==
    [ctl EXCEPT !.stdout = ctl.req[r].old_stdout,
                !.stderr = ctl.req[r].old_stderr,
                !.req[r].pc = pc_after]

\* the form validates: old_stdout, old_stderr = sys.stdout, sys.stderr
web_save(r, handler) ==
    /\ ctl.req[r].pc = "idle"
    /\ ctl' = [ctl EXCEPT !.req[r] = [pc |-> "redirect", handler |-> handler,
                                      old_stdout |-> ctl.stdout,
                                      old_stderr |-> ctl.stderr, exc |-> ""]]
    /\ UNCHANGED <<storeVars, normVars, trace>>

\* sys.stdout = sys.stderr = output = tempfile.NamedTemporaryFile(mode='w+')
web_redirect(r) ==
    /\ ctl.req[r].pc = "redirect"
    /\ ctl' = [ctl EXCEPT !.stdout = output(r), !.stderr = output(r),
                          !.req[r].pc = "command"]
    /\ UNCHANGED <<storeVars, normVars, trace>>

\* the exceptions a handler's except clause names, and one it does not
Exceptions == {"OSError", "ValueError"}

\* the command of the handler runs: it returns, or raises
web_command(r, raised) ==
    /\ ctl.req[r].pc = "command"
    /\ ctl' = IF raised = "" THEN AtRequest(r, "reset")
              ELSE [ctl EXCEPT !.req[r].pc = "except", !.req[r].exc = raised]
    /\ UNCHANGED <<storeVars, normVars, trace>>

\* sys.stdout.flush(), which raises ValueError on a closed file, then the
\* two assignments that put the saved streams back
web_reset(r) ==
    /\ ctl.req[r].pc = "reset"
    /\ ctl' = IF ctl.stdout \in ctl.closed
              THEN [ctl EXCEPT !.req[r].pc = "except", !.req[r].exc = "ValueError"]
              ELSE Restored(r, "read")
    /\ UNCHANGED <<storeVars, normVars, trace>>

\* output.seek(0); output.read(); output.close()
web_read(r) ==
    /\ ctl.req[r].pc = "read"
    /\ ctl' = [ctl EXCEPT !.closed = @ \cup {output(r)}, !.req[r].pc = "result"]
    /\ UNCHANGED <<storeVars, normVars, trace>>

\* the result files are written and the page is rendered, or a file
\* operation raises
web_result(r, io_error) ==
    /\ ctl.req[r].pc = "result"
    /\ ctl' = IF io_error
              THEN [ctl EXCEPT !.req[r].pc = "except", !.req[r].exc = "OSError"]
              ELSE AtRequest(r, "done")
    /\ UNCHANGED <<storeVars, normVars, trace>>

\* the except clause: download and process catch (OSError, RuntimeError),
\* restore and close; health_stats catches Exception and restores; anything
\* else leaves the handler as it is
web_except(r) ==
    /\ ctl.req[r].pc = "except"
    /\ ctl' = IF ctl.req[r].handler = "health_stats"
              THEN Restored(r, "done")
              ELSE IF ctl.req[r].exc = "OSError"
                   THEN [Restored(r, "done") EXCEPT !.closed = @ \cup {output(r)}]
                   ELSE AtRequest(r, "failed")
    /\ UNCHANGED <<storeVars, normVars, trace>>

InitWeb ==
    /\ StoreIdle
    /\ ctl = [pc |-> "serving", stdout |-> original_stdout, stderr |-> original_stderr,
              closed |-> {}, req |-> [r \in Requests |-> NoRequest]]
    /\ trace = <<>>

NextWeb ==
    \E r \in Requests :
        \/ \E handler \in Handlers : web_save(r, handler)
        \/ web_redirect(r)
        \/ \E raised \in Exceptions \cup {""} : web_command(r, raised)
        \/ web_reset(r)
        \/ web_read(r)
        \/ \E io_error \in BOOLEAN : web_result(r, io_error)
        \/ web_except(r)

SpecWeb == InitWeb /\ [][NextWeb]_vars

\* every request that was made is over, and at least one was made
RequestsFinished ==
    /\ \A r \in Requests : ctl.req[r].pc \in {"idle", "done", "failed"}
    /\ \E r \in Requests : ctl.req[r].pc # "idle"

\* C30: output capture is always undone.  Once every request has finished,
\* normally or with an exception, overlapping or not, sys.stdout and
\* sys.stderr are the streams the process started with.
C30_StreamsRestored ==
    RequestsFinished =>
        /\ ctl.stdout = original_stdout
        /\ ctl.stderr = original_stderr
====
